---- MODULE Spec2Model ----
(***************************************************************************)
(* Client-side access layer of the Fusion workflow scripts: the full       *)
(* action-catalog fetch with per-page retry (action_search._paginate_all), *)
(* its local cache file (_load_cache / _save_cache), and the definitions   *)
(* fetch of query_workflows.fetch_all_definitions.                         *)
(*                                                                         *)
(* One script invocation runs at a time (the scripts are single-threaded   *)
(* command-line programs); the cache file and the wall clock persist       *)
(* between invocations.  The remote collection a run talks to is an input  *)
(* of that run and is static while the run lasts.                          *)
(***************************************************************************)
EXTENDS Integers, Sequences, FiniteSets, TLC

(* ---------------------------- bounds ----------------------------------- *)
\* Largest remote collection served to one run.
MaxCatalog == 4
\* Page size of the combined activities endpoint (limit=200 in the source),
\* scaled down so that a collection of MaxCatalog entries spans two full pages
\* (and a third request when the remote reports a larger total).
PageLimit == 2
\* Page size of the definitions endpoint (limit = 100 in the source), scaled.
DefLimit == 2
\* Script invocations per behaviour.
MaxRuns == 2
\* Clock advances per behaviour.
MaxTicks == 2
\* Wall-clock reading (seconds) at the start of a behaviour.
StartTime == 10000

(* ----------------------- program constants ----------------------------- *)
_CACHE_TTL == 3600

\* Line 133.
max_retries_4 == 3 + 1
max_retries == 3

(* ------------------------------ state ---------------------------------- *)
VARIABLES
    now,            \* time.time(), whole seconds
    ticks,          \* clock advances so far
    runs,           \* script invocations started so far
    cacheFile,      \* content of .action_cache.json
    lastSave,       \* history: the last _save_cache call and what became of it
    pc,             \* position of the running invocation
    catalog,        \* remote action catalog served to this run
    catalogTotal,   \* meta.pagination.total the remote reports for it
    resources,      \* _paginate_all: entries accumulated so far
    offset,         \* _paginate_all: offset of the next page request
    total,          \* _paginate_all: <<>> is None, <<n>> the total read
    attempt,        \* _paginate_all: attempt number of the next request
    pageRequests,   \* requests sent so far for the page at the current offset
    okRequests,     \* requests of this run that were answered
    failed,         \* whether a request of this run has failed
    sleeps,         \* time.sleep() calls since the last answered request, in seconds
    saves,          \* _save_cache calls of this run: [entries, write]
    outcome,        \* "none" | "returned" | "raised"
    result,         \* the value returned to the caller
    stopReason,     \* why the run ended
    definitions,    \* remote workflow definitions served to this run
    definitionsTotal,
    all_defs,       \* fetch_all_definitions: entries accumulated so far
    def_offset,     \* fetch_all_definitions: offset of the next request
    remoteFolds,    \* whether the remote filter compares text ignoring case
    query,          \* search: the query text (name or use-case term)
    vendor_filter,  \* search: the vendor filter, <<>> when none is given
    fqlLog,         \* search: remote filter queries sent, in order
    scans,          \* search: what each _paginate_all call returned, in order
    tier,           \* search: the tier that produced the result
    files,          \* import: the batch, args.files
    skip_validate,  \* import: args.skip_validate
    skip_duplicate_check,
    existing_names, \* import: lowered name -> existing definition
    item,           \* import: position in the batch of the file in work
    im_results,     \* import: main's results, one (file, status, id) per item done
    stages,         \* import: stages run and requests sent, in order
    exit_code,      \* import: process exit status, <<>> while running
    classifications, \* duplicate classification: one record per run made
    po_timeout,     \* poller: timeout argument of poll_results (seconds)
    po_interval,    \* poller: interval argument of poll_results (seconds)
    po_submitted,   \* poller: clock reading when the execution was submitted
    po_start,       \* poller: start, the clock reading taken by poll_results
    po_checks,      \* poller: status checks started so far
    po_last,        \* poller: what the last status check brought
    po_spent,       \* poller: seconds spent inside status checks so far
    tk_token,       \* token provider: _token_cache["token"], <<>> is None
    tk_expires,     \* token provider: _token_cache["expires"]
    tk_issued,      \* token provider: clock reading of the call that filled the cache
    tk_expires_in,  \* token provider: lifetime the remote gave for the cached token
    tk_requests,    \* token provider: token requests sent so far
    tk_log,         \* token provider: one record per get_token call made
    preflight_only, \* validate.py: args.preflight_only
    va_passed,      \* validate.py: passed, as validate_file returned it, per file done
    rc_exists,      \* shared cache file: whether the path holds a file
    rc_file,        \* shared cache file: its text, a sequence of tokens
    rc_old,         \* shared cache file: the entries of the snapshot it held at first
    rc_new,         \* writer: the entries it is saving
    w_pc,           \* writer: position in _save_cache
    l_pc,           \* loader: position in _load_cache
    l_buf,          \* loader: the text read so far
    l_result        \* loader: what _load_cache returned

envVars == <<now, ticks, runs, cacheFile, lastSave>>
paVars == <<catalog, catalogTotal, resources, offset, total, attempt, sleeps, saves>>
fdVars == <<definitions, definitionsTotal, all_defs, def_offset>>
retVars == <<outcome, result, stopReason>>
reqVars == <<pageRequests, okRequests, failed>>
srVars == <<remoteFolds, query, vendor_filter, fqlLog, scans, tier>>
\* The state of the components a specification does not exercise.
imVars == <<files, skip_validate, skip_duplicate_check, existing_names, item,
           im_results, stages, exit_code>>
clVars == <<classifications>>
poVars == <<po_timeout, po_interval, po_submitted, po_start, po_checks, po_last, po_spent>>
tkVars == <<tk_token, tk_expires, tk_issued, tk_expires_in, tk_requests, tk_log>>
vaVars == <<preflight_only, va_passed>>
rcVars == <<rc_exists, rc_file, rc_old, rc_new, w_pc, l_pc, l_buf, l_result>>
otherVars == <<tkVars, vaVars, rcVars>>
auxVars == <<srVars, imVars, clVars, poVars, otherVars>>
vars == <<envVars, pc, paVars, fdVars, reqVars, retVars, auxVars>>

(* ----------------------------- helpers --------------------------------- *)
Min(a, b) == IF a < b THEN a ELSE b

\* The remote collection of n entries, identified by their rank.
Entries(n) == [i \in 1..n |-> i]

IsPrefix(s, t) == Len(s) <= Len(t) /\ SubSeq(t, 1, Len(s)) = s

\* The page a list endpoint serves for limit/offset: entries [offset, offset+limit).
PageOf(all, off, limit) == SubSeq(all, off + 1, Min(off + limit, Len(all)))

(* --------------------------- cache file -------------------------------- *)
\* Content classes of the cache file.  kind:
\*   "missing"      no regular file at the path
\*   "unreadable"   open() raises OSError
\*   "bad_encoding" bytes that are not UTF-8
\*   "invalid_json" text json.load rejects (empty or cut-off files included)
\*   "not_object"   valid JSON that is no object (a list, a string, null)
\*   "object"       a JSON object; tsKind says whether "ts" is absent, a
\*                  number or something else, hasResources whether the key
\*                  "resources" is present
File(kind, tsKind, ts, hasResources, res) ==
    [kind |-> kind, tsKind |-> tsKind, ts |-> ts,
     hasResources |-> hasResources, resources |-> res]

NoFile == File("missing", "absent", 0, FALSE, <<>>)
Snapshot(ts, res) == File("object", "number", ts, TRUE, res)

InitCacheFiles ==
    { NoFile,
      File("unreadable", "absent", 0, FALSE, <<>>),
      File("bad_encoding", "absent", 0, FALSE, <<>>),
      File("invalid_json", "absent", 0, FALSE, <<>>),
      File("not_object", "absent", 0, FALSE, <<>>),
      File("object", "absent", 0, TRUE, Entries(1)),
      File("object", "other", 0, TRUE, Entries(1)),
      File("object", "number", StartTime, FALSE, <<>>),
      Snapshot(StartTime, Entries(2)),
      Snapshot(StartTime - _CACHE_TTL, Entries(2)) }

Absent == [status |-> "absent", entries |-> <<>>]
Raised == [status |-> "raised", entries |-> <<>>]
Cached(res) == [status |-> "entries", entries |-> res]

\* time.time() - data.get("ts", 0) < _CACHE_TTL
FreshLe(t, ts) == t - ts <= _CACHE_TTL
Fresh(t, ts) == t - ts < _CACHE_TTL

\* _load_cache(): the cached entries, absent (None), or an exception that
\* the except clause (json.JSONDecodeError, KeyError, OSError) lets through.
LoadCache(f, t) ==
    CASE f.kind = "missing"      -> Absent
      [] f.kind = "unreadable"   -> Absent       \* OSError, caught
      [] f.kind = "bad_encoding" -> Raised       \* UnicodeDecodeError
      [] f.kind = "invalid_json" -> Absent       \* JSONDecodeError, caught
      [] f.kind = "not_object"   -> Raised       \* AttributeError on .get
      [] f.kind = "object" ->
            IF f.tsKind = "other" THEN Raised    \* TypeError on the subtraction
            ELSE IF Fresh(t, IF f.tsKind = "absent" THEN 0 ELSE f.ts)
                 THEN IF f.hasResources THEN Cached(f.resources)
                      ELSE Absent                \* KeyError, caught
                 ELSE Absent

\* What can become of the write in _save_cache: it succeeds, open() fails
\* (the file is untouched), or the dump fails after open() truncated the file.
WriteOutcomes == {"ok", "open_fails", "write_fails"}

\* The file after _save_cache(res) at time t with write outcome w.
SaveCacheNoTs(f, res, t, w) ==
    CASE w = "ok"          -> File("object", "absent", 0, TRUE, res)
      [] w = "open_fails"  -> f
      [] w = "write_fails" -> File("invalid_json", "absent", 0, FALSE, <<>>)
SaveCache(f, res, t, w) ==
    CASE w = "ok"          -> Snapshot(t, res)
      [] w = "open_fails"  -> f
      [] w = "write_fails" -> File("invalid_json", "absent", 0, FALSE, <<>>)

\* Whether _save_cache lets the failure of its write reach its caller:
\* never, the OSError is caught.
SaveRaisesOnFailure(w) == w # "ok"
SaveRaises(w) == FALSE

NoSave == [called |-> FALSE, entries |-> <<>>, ts |-> 0, write |-> "ok",
           reason |-> "none", total |-> <<>>]

\* No search has been made.
SearchIdle ==
    /\ remoteFolds = TRUE /\ query = <<>> /\ vendor_filter = <<>>
    /\ fqlLog = <<>> /\ scans = <<>> /\ tier = "none"

\* A lowered-name index without entries: existing_names = {}.
NoNames == [n \in {} |-> <<>>]

\* No import has been started.
ImportIdle ==
    /\ files = <<>> /\ skip_validate = FALSE /\ skip_duplicate_check = FALSE
    /\ existing_names = NoNames /\ item = 0
    /\ im_results = <<>> /\ stages = <<>> /\ exit_code = <<>>

\* No classification run has been made.
ClassifyIdle == classifications = <<>>

\* No execution has been submitted.
PollIdle ==
    /\ po_timeout = 0 /\ po_interval = 0 /\ po_submitted = 0 /\ po_start = 0
    /\ po_checks = 0 /\ po_last = "none" /\ po_spent = 0

\* No token has been requested.
TokenIdle ==
    /\ tk_token = <<>> /\ tk_expires = 0 /\ tk_issued = 0 /\ tk_expires_in = 0
    /\ tk_requests = 0 /\ tk_log = <<>>

\* validate.py has not been started.
ValidateIdle == preflight_only = FALSE /\ va_passed = <<>>

\* No two processes are at the cache file.
RaceIdle ==
    /\ rc_exists = FALSE /\ rc_file = <<>> /\ rc_old = <<>> /\ rc_new = <<>>
    /\ w_pc = "idle" /\ l_pc = "idle" /\ l_buf = <<>> /\ l_result = Absent

OtherIdle == TokenIdle /\ ValidateIdle /\ RaceIdle

TypeOK ==
    /\ now \in Nat /\ ticks \in 0..MaxTicks /\ runs \in 0..MaxRuns
    /\ pc \in {"idle", "pa_request", "pa_done", "fd_request", "fd_done", "cc_done"}
    /\ outcome \in {"none", "returned", "raised"}
    /\ offset \in Nat /\ attempt \in 1..max_retries
    /\ Len(total) <= 1

Init ==
    /\ now = StartTime /\ ticks = 0 /\ runs = 0
    /\ cacheFile \in InitCacheFiles
    /\ lastSave = NoSave
    /\ pc = "idle"
    /\ catalog = <<>> /\ catalogTotal = 0
    /\ resources = <<>> /\ offset = 0 /\ total = <<>> /\ attempt = 1
    /\ pageRequests = 0 /\ okRequests = 0 /\ failed = FALSE /\ sleeps = <<>> /\ saves = <<>>
    /\ outcome = "none" /\ result = <<>> /\ stopReason = "none"
    /\ definitions = <<>> /\ definitionsTotal = 0
    /\ all_defs = <<>> /\ def_offset = 0
    /\ SearchIdle
    /\ ImportIdle
    /\ ClassifyIdle /\ PollIdle /\ OtherIdle

\* The wall clock advances between invocations.  A run reads the clock when
\* it loads the cache (its first step) and when it saves it (its last), so
\* this covers every distance between a save and a later load.
Tick ==
    /\ pc = "idle"
    /\ ticks < MaxTicks
    /\ \E d \in {1, _CACHE_TTL - 1} : now' = now + d
    /\ ticks' = ticks + 1
    /\ UNCHANGED <<runs, cacheFile, lastSave, pc, paVars, fdVars, reqVars, retVars>>
    /\ UNCHANGED auxVars

(* ---------------- action_search._paginate_all -------------------------- *)
\* Line 148: the partial result is cached only when it is not empty.
SaveEvenWhenEmpty(res) == TRUE
SaveOnExhaustion(res) == res # <<>>

\* Line 160: the loop ends once the offset has reached the total read.
ReachedTotalStrict(off, tot) == off > tot
ReachedTotal(off, tot) == off >= tot

\* Line 150: what the fetch returns once a page has used up its attempts.
ExhaustedResultDropsAll(res) == <<>>
ExhaustedResult(res) == res

\* Lines 144-150: whether the fetch raises once a page has used up its
\* attempts: never, "return what we have so far rather than crash".
ExhaustedRaisesWhenEmpty(res) == res = <<>>
ExhaustedRaises(res) == FALSE

\* A backoff of two seconds whatever the attempt.
BackoffFlat(k) == 2

\* Line 143: time.sleep(2 * attempt).
Backoff(k) == 2 * k

\* Line 156: resources.extend(page).
AccumulateReplaces(res, page) == page
Accumulate(res, page) == res \o page

\* The end of a fetch: the optional _save_cache call, then the return.
Finish(res, tot, raises, doSave, w, reason) ==
    /\ cacheFile' = IF doSave THEN SaveCache(cacheFile, res, now, w) ELSE cacheFile
    /\ saves' = IF doSave THEN Append(saves, [entries |-> res, write |-> w]) ELSE saves
    /\ lastSave' = IF doSave
                   THEN [called |-> TRUE, entries |-> res, ts |-> now, write |-> w,
                         reason |-> reason, total |-> tot]
                   ELSE lastSave
    /\ outcome' = IF raises \/ (doSave /\ SaveRaises(w)) THEN "raised" ELSE "returned"
    /\ result' = IF raises \/ (doSave /\ SaveRaises(w)) THEN <<>> ELSE res
    /\ stopReason' = reason
    /\ pc' = "pa_done"

\* A hit that writes the snapshot back with the time of the read.
CacheAfterHitRefreshed(f, t) == Snapshot(t, f.resources)

\* Lines 124-128: a hit returns the cached entries at once; the file is left
\* as it is.
CacheAfterHit(f, t) == f

\* Lines 118-133: the cache is consulted; a hit is returned at once, a miss
\* starts the page loop against the remote catalog of this run.
PaginateAll_Start ==
    /\ pc = "idle" /\ runs < MaxRuns
    /\ runs' = runs + 1
    /\ LET cached == LoadCache(cacheFile, now) IN
       CASE cached.status = "raised" ->
              /\ pc' = "pa_done" /\ outcome' = "raised" /\ result' = <<>>
              /\ stopReason' = "load_raised"
              /\ UNCHANGED <<catalog, catalogTotal>>
         [] cached.status = "entries" ->
              /\ pc' = "pa_done" /\ outcome' = "returned"
              /\ result' = cached.entries /\ stopReason' = "cache"
              /\ UNCHANGED <<catalog, catalogTotal>>
         [] cached.status = "absent" ->
              /\ pc' = "pa_request"
              /\ \E n \in 0..MaxCatalog :
                   /\ catalog' = Entries(n)
                   /\ catalogTotal' \in {0, n, n + 1}
              /\ UNCHANGED retVars
    /\ cacheFile' = IF LoadCache(cacheFile, now).status = "entries"
                    THEN CacheAfterHit(cacheFile, now) ELSE cacheFile
    /\ resources' = <<>> /\ offset' = 0 /\ total' = <<>> /\ attempt' = 1
    /\ UNCHANGED <<now, ticks, lastSave, sleeps, saves, fdVars, reqVars>>
    /\ UNCHANGED auxVars

\* Lines 135-150: the request of the page at `offset` fails.  Before the
\* last attempt the fetcher backs off and tries again; after it, the fetch
\* ends with what it has.
PageRequestFails ==
    /\ pc = "pa_request"
    /\ pageRequests' = pageRequests + 1
    /\ failed' = TRUE
    /\ IF attempt < max_retries
       THEN /\ sleeps' = Append(sleeps, Backoff(attempt))
            /\ attempt' = attempt + 1
            /\ UNCHANGED <<pc, cacheFile, lastSave, saves, retVars>>
       ELSE /\ \E w \in WriteOutcomes :
                 Finish(ExhaustedResult(resources), total, ExhaustedRaises(resources),
                        SaveOnExhaustion(resources), w, "exhausted")
            /\ UNCHANGED <<sleeps, attempt>>
    /\ UNCHANGED <<now, ticks, runs, catalog, catalogTotal, resources,
                   offset, total, okRequests, fdVars>>
    /\ UNCHANGED auxVars

\* Lines 137-138 and 151-166: the request of the page at `offset` succeeds.
PageRequestOk ==
    /\ pc = "pa_request"
    /\ okRequests' = okRequests + 1
    /\ sleeps' = <<>>
    /\ LET page == PageOf(catalog, offset, PageLimit)
           tot == IF total = <<>> THEN catalogTotal ELSE total[1]
           res == Accumulate(resources, page)
           off == offset + Len(page)
       IN IF page = <<>>
          THEN /\ \E w \in WriteOutcomes : Finish(resources, total, FALSE, TRUE, w, "empty_page")
               /\ pageRequests' = pageRequests + 1
               /\ UNCHANGED <<resources, offset, total, attempt>>
          ELSE /\ resources' = res /\ offset' = off /\ total' = <<tot>>
               /\ pageRequests' = 0
               /\ IF ReachedTotal(off, tot)
                  THEN /\ \E w \in WriteOutcomes : Finish(res, <<tot>>, FALSE, TRUE, w, "total")
                       /\ UNCHANGED attempt
                  ELSE /\ attempt' = 1
                       /\ UNCHANGED <<pc, cacheFile, lastSave, saves, retVars>>
    /\ UNCHANGED <<now, ticks, runs, catalog, catalogTotal, failed, fdVars>>
    /\ UNCHANGED auxVars

(* ------------- query_workflows.fetch_all_definitions ------------------- *)
\* Lines 32-37.
FetchAllDefinitions_Start ==
    /\ pc = "idle" /\ runs < MaxRuns
    /\ runs' = runs + 1
    /\ pc' = "fd_request"
    /\ \E n \in 0..MaxCatalog :
         /\ definitions' = Entries(n)
         /\ definitionsTotal' \in {0, n, n + 1}
    /\ all_defs' = <<>> /\ def_offset' = 0
    /\ UNCHANGED <<now, ticks, cacheFile, lastSave, paVars, reqVars, retVars>>
    /\ UNCHANGED auxVars

\* Line 39: api_get raises; nothing catches it.
DefsRequestFails ==
    /\ pc = "fd_request"
    /\ pageRequests' = pageRequests + 1
    /\ failed' = TRUE
    /\ pc' = "fd_done" /\ outcome' = "raised" /\ result' = <<>>
    /\ stopReason' = "request_raised"
    /\ UNCHANGED <<envVars, paVars, fdVars, okRequests>>
    /\ UNCHANGED auxVars

\* Lines 39-49.
DefsRequestOk ==
    /\ pc = "fd_request"
    /\ okRequests' = okRequests + 1
    /\ LET page == PageOf(definitions, def_offset, DefLimit)
           off == def_offset + Len(page)
       IN IF page = <<>>
          THEN /\ pc' = "fd_done" /\ outcome' = "returned" /\ result' = all_defs
               /\ stopReason' = "empty_page"
               /\ UNCHANGED <<all_defs, def_offset>>
          ELSE /\ all_defs' = all_defs \o page /\ def_offset' = off
               /\ IF off >= definitionsTotal
                  THEN /\ pc' = "fd_done" /\ outcome' = "returned"
                       /\ result' = all_defs \o page /\ stopReason' = "total"
                  ELSE UNCHANGED <<pc, retVars>>
    /\ UNCHANGED <<envVars, paVars, definitions, definitionsTotal, pageRequests, failed>>
    /\ UNCHANGED auxVars

(* ----------------- action_search._clear_cache -------------------------- *)
\* What can become of os.remove on an existing file: it removes it, or it
\* fails with an OSError other than FileNotFoundError (nothing catches it).
RemoveOutcomes == {"ok", "os_error"}

\* Lines 111-115: True after os.remove, False on FileNotFoundError.
ClearCacheAlwaysTrue(f) == TRUE
ClearCacheReturn(f) == f.kind # "missing"

\* Lines 109-115 (python action_search.py --clear-cache).
ClearCache ==
    /\ pc = "idle" /\ runs < MaxRuns
    /\ runs' = runs + 1
    /\ pc' = "cc_done"
    /\ \E r \in RemoveOutcomes :
         IF cacheFile.kind # "missing" /\ r = "os_error"
         THEN /\ outcome' = "raised" /\ result' = <<>> /\ stopReason' = "remove_raised"
              /\ UNCHANGED <<cacheFile, lastSave>>
         ELSE /\ outcome' = "returned" /\ result' = <<ClearCacheReturn(cacheFile)>>
              /\ stopReason' = "cleared"
              /\ cacheFile' = NoFile
              /\ lastSave' = IF cacheFile.kind = "missing" THEN lastSave ELSE NoSave
    /\ UNCHANGED <<now, ticks, paVars, fdVars, reqVars>>
    /\ UNCHANGED auxVars

\* The invocation ends; its locals are gone, the cache file stays.
Exit ==
    /\ pc \in {"pa_done", "fd_done", "cc_done"}
    /\ pc' = "idle"
    /\ catalog' = <<>> /\ catalogTotal' = 0
    /\ resources' = <<>> /\ offset' = 0 /\ total' = <<>> /\ attempt' = 1
    /\ pageRequests' = 0 /\ okRequests' = 0 /\ failed' = FALSE /\ sleeps' = <<>> /\ saves' = <<>>
    /\ outcome' = "none" /\ result' = <<>> /\ stopReason' = "none"
    /\ definitions' = <<>> /\ definitionsTotal' = 0
    /\ all_defs' = <<>> /\ def_offset' = 0
    /\ UNCHANGED <<now, ticks, runs, cacheFile, lastSave>>
    /\ UNCHANGED auxVars

Next ==
    \/ Tick
    \/ PaginateAll_Start
    \/ PageRequestFails
    \/ PageRequestOk
    \/ FetchAllDefinitions_Start
    \/ DefsRequestFails
    \/ DefsRequestOk
    \/ ClearCache
    \/ Exit

Spec == Init /\ [][Next]_vars

(* ------------------------------ text ----------------------------------- *)
\* Text is a sequence of one-character strings; <<>> is the empty string,
\* which Python treats as false in "if vendor_filter:" exactly like None.
T_a == <<"a">>
T_b == <<"b">>
T_A == <<"A">>
T_ab == <<"a", " ", "b">>
T_Ab == <<"A", " ", "b">>
T_ba == <<"b", "a">>
T_abb == <<"a", " ", "b", "b">>
T_v == <<"v">>
T_V == <<"V">>

\* str.lower() on one character of the alphabet in use.
LowerChar(c) ==
    CASE c = "A" -> "a"
      [] c = "B" -> "b"
      [] c = "V" -> "v"
      [] c = "W" -> "w"
      [] c = "F" -> "f"
      [] OTHER -> c

\* str.lower()
Lower(s) == [i \in 1..Len(s) |-> LowerChar(s[i])]

\* "sub in s": sub occurs in s as a contiguous substring.
Contains(s, sub) ==
    \E i \in 0..(Len(s) - Len(sub)) : SubSeq(s, i + 1, i + Len(sub)) = sub

\* str.split(): the maximal runs of non-whitespace characters, in order.
RECURSIVE SplitFrom(_, _, _)
SplitFrom(s, i, word) ==
    IF i > Len(s)
    THEN IF word = <<>> THEN <<>> ELSE <<word>>
    ELSE IF s[i] = " "
         THEN (IF word = <<>> THEN <<>> ELSE <<word>>) \o SplitFrom(s, i + 1, <<>>)
         ELSE SplitFrom(s, i + 1, Append(word, s[i]))

Split(s) == SplitFrom(s, 1, <<>>)

\* max(words, key=len) returning the last of the longest words.
LongestLast(words) ==
    LET m == CHOOSE i \in DOMAIN words :
                 /\ \A j \in DOMAIN words : Len(words[j]) <= Len(words[i])
                 /\ \A j \in DOMAIN words : j > i => Len(words[j]) < Len(words[i])
    IN words[m]

\* max(words, key=len): the first word of maximal length.
Longest(words) ==
    LET m == CHOOSE i \in DOMAIN words :
                 /\ \A j \in DOMAIN words : Len(words[j]) <= Len(words[i])
                 /\ \A j \in DOMAIN words : j < i => Len(words[j]) < Len(words[i])
    IN words[m]

(* --------------------- the action catalog searched --------------------- *)
\* Largest catalog a search runs against.
MaxActions == 2
\* Page size of a remote filter query (limit=200 in the source), scaled.
FqlLimit == 1

ActionNames == {T_ab, T_Ab, T_ba, T_abb}
ActionVendors == {T_v, T_V}
UseCaseLists == {<<>>, <<T_a>>, <<T_A, T_ab>>}
Queries == {T_b, T_A, T_ab, T_abb}
VendorFilters == {<<>>, T_v, T_V}

\* Catalog entries that differ in name and vendor, and entries that differ in
\* vendor, use cases and permission.
NamedActions ==
    [name : ActionNames, vendor : ActionVendors,
     use_cases : {<<>>}, has_permission : {TRUE}]
GroupedActions ==
    [name : {T_ab}, vendor : ActionVendors,
     use_cases : UseCaseLists, has_permission : BOOLEAN]

\* The entry at position i of a catalog carries id i.
WithIds(c) ==
    [i \in 1..Len(c) |->
        [id |-> i, name |-> c[i].name, vendor |-> c[i].vendor,
         use_cases |-> c[i].use_cases, has_permission |-> c[i].has_permission]]

ActionCatalogs ==
    { WithIds(c) : c \in UNION { [1..n -> NamedActions] \cup [1..n -> GroupedActions]
                                  : n \in 0..MaxActions } }

(* ------------------ action_search._fql_search --------------------------- *)
\* The remote filter, as the source documents it: name:'q' is a substring
\* match on the action name that finds nothing for a multi-word q, vendor:'v'
\* is an exact vendor match, and the clauses are ANDed.  Whether the remote
\* compares text ignoring case is not settled by the source.
RemoteText(s) == IF remoteFolds THEN Lower(s) ELSE s

RemoteMatches(r, q, v) ==
    /\ v # <<>> => RemoteText(r.vendor) = RemoteText(v)
    /\ q # <<>> => /\ Len(Split(q)) <= 1
                   /\ Contains(RemoteText(r.name), RemoteText(q))

\* The pagination loop of _fql_search over the remote's matches.
RECURSIVE FqlLoop(_, _, _, _)
FqlLoop(matches, off, tot, results) ==
    LET page == PageOf(matches, off, FqlLimit) IN
    IF page = <<>>
    THEN results
    ELSE LET t == IF tot = <<>> THEN <<Len(matches)>> ELSE tot
             off2 == off + Len(page)
         IN IF off2 >= t[1]
            THEN results \o page
            ELSE FqlLoop(matches, off2, t, results \o page)

\* _fql_search: <<results>> when every request succeeded, <<>> (None) when one
\* raised.
FqlAnswers == {"ok", "error"}
FqlSearch(q, v, answer) ==
    IF answer = "error"
    THEN <<>>
    ELSE <<FqlLoop(SelectSeq(catalog, LAMBDA r : RemoteMatches(r, q, v)), 0, <<>>, <<>>)>>

FqlCall(q, v, answer) == [name |-> q, vendor |-> v, ok |-> answer = "ok"]

(* ------------------ the full scan (_paginate_all) ----------------------- *)
\* What _paginate_all hands to a scan: the whole catalog, a proper prefix of
\* it (a fetch that gave up on a page), or an exception.
ScanResults == {<<"raised">>} \cup { <<"returned", SubSeq(catalog, 1, k)>> : k \in 0..Len(catalog) }

\* The filter loop of _client_side_search without lowering the vendor.
ClientSideFilterExactVendor(all, q, v) ==
    SelectSeq(all, LAMBDA r :
        /\ ~ (v # <<>> /\ r.vendor # v)
        /\ Contains(Lower(r.name), Lower(q)))

\* The filter loop of _client_side_search.
ClientSideFilter(all, q, v) ==
    SelectSeq(all, LAMBDA r :
        /\ ~ (v # <<>> /\ Lower(r.vendor) # Lower(v))
        /\ Contains(Lower(r.name), Lower(q)))

\* The narrowed tier without its list comprehension.
NarrowedFilterKeepsAll(candidates, q) == candidates

\* The list comprehension of the narrowed tier.
NarrowedFilter(candidates, q) ==
    SelectSeq(candidates, LAMBDA r : Contains(Lower(r.name), Lower(q)))

(* ------------------ action_search.search_actions ------------------------ *)
\* "results is not None and len(results) > 0", with zero results accepted.
HasResultsOrEmpty(res) == res # <<>>

\* "results is not None and len(results) > 0"
HasResults(res) == res # <<>> /\ Len(res[1]) > 0

SearchReturn(t, res) ==
    /\ outcome' = "returned" /\ result' = res /\ tier' = t /\ pc' = "sa_done"

\* Direct tier: the full query, ANDed with the vendor filter.
SearchActions_Direct ==
    /\ pc = "idle"
    /\ \E q \in Queries, v \in VendorFilters, answer \in FqlAnswers :
         LET results == FqlSearch(q, v, answer) IN
         /\ query' = q /\ vendor_filter' = v
         /\ fqlLog' = Append(fqlLog, FqlCall(q, v, answer))
         /\ IF HasResults(results)
            THEN SearchReturn("direct", results[1])
            ELSE /\ pc' = "sa_words"
                 /\ UNCHANGED <<outcome, result, tier>>
    /\ UNCHANGED <<remoteFolds, scans, stopReason>>
    /\ UNCHANGED <<envVars, paVars, fdVars, reqVars, imVars, clVars, otherVars, poVars>>

\* Narrowed tier of a multi-word query.
SearchActions_Narrowed ==
    /\ pc = "sa_words"
    /\ Len(Split(query)) > 1
    /\ \E answer \in FqlAnswers :
         LET longest == Longest(Split(query))
             fql_results == FqlSearch(longest, vendor_filter, answer)
         IN /\ fqlLog' = Append(fqlLog, FqlCall(longest, vendor_filter, answer))
            /\ IF HasResults(fql_results)
               THEN SearchReturn("narrowed", NarrowedFilter(fql_results[1], query))
               ELSE /\ pc' = "sa_scan"
                    /\ UNCHANGED <<outcome, result, tier>>
    /\ UNCHANGED <<remoteFolds, query, vendor_filter, scans, stopReason>>
    /\ UNCHANGED <<envVars, paVars, fdVars, reqVars, imVars, clVars, otherVars, poVars>>

\* A single-word query skips the narrowed tier.
SearchActions_SingleWord ==
    /\ pc = "sa_words"
    /\ Len(Split(query)) <= 1
    /\ pc' = "sa_scan"
    /\ UNCHANGED <<srVars, retVars>>
    /\ UNCHANGED <<envVars, paVars, fdVars, reqVars, imVars, clVars, otherVars, poVars>>

\* Full-scan tier: _client_side_search.
ClientSideSearch ==
    /\ pc = "sa_scan"
    /\ \E all_actions \in ScanResults :
         /\ scans' = Append(scans, all_actions)
         /\ IF all_actions[1] = "raised"
            THEN /\ outcome' = "raised" /\ result' = <<>> /\ tier' = "scan"
                 /\ pc' = "sa_done"
            ELSE SearchReturn("scan", ClientSideFilter(all_actions[2], query, vendor_filter))
    /\ UNCHANGED <<remoteFolds, query, vendor_filter, fqlLog, stopReason>>
    /\ UNCHANGED <<envVars, paVars, fdVars, reqVars, imVars, clVars, otherVars, poVars>>

(* ------------------ action_search.search_by_vendor ---------------------- *)
\* "results is not None"
RemoteAnswered(res) == res # <<>>

\* The list comprehension of the fallback of search_by_vendor.
VendorFilter(all, v) == SelectSeq(all, LAMBDA r : Lower(r.vendor) = Lower(v))

\* Fast path: _fql_vendor, a remote filter query on the vendor alone.
SearchByVendor_Remote ==
    /\ pc = "idle"
    /\ \E v \in ActionVendors, answer \in FqlAnswers :
         LET results == FqlSearch(<<>>, v, answer) IN
         /\ query' = <<>> /\ vendor_filter' = v
         /\ fqlLog' = Append(fqlLog, FqlCall(<<>>, v, answer))
         /\ IF RemoteAnswered(results)
            THEN /\ outcome' = "returned" /\ result' = results[1]
                 /\ tier' = "direct" /\ pc' = "sv_done"
            ELSE /\ pc' = "sv_scan"
                 /\ UNCHANGED <<outcome, result, tier>>
    /\ UNCHANGED <<remoteFolds, scans, stopReason>>
    /\ UNCHANGED <<envVars, paVars, fdVars, reqVars, imVars, clVars, otherVars, poVars>>

\* Fallback: client-side scan of the full catalog.
SearchByVendor_Scan ==
    /\ pc = "sv_scan"
    /\ \E all_actions \in ScanResults :
         /\ scans' = Append(scans, all_actions)
         /\ tier' = "scan" /\ pc' = "sv_done"
         /\ IF all_actions[1] = "raised"
            THEN outcome' = "raised" /\ result' = <<>>
            ELSE outcome' = "returned" /\ result' = VendorFilter(all_actions[2], vendor_filter)
    /\ UNCHANGED <<remoteFolds, query, vendor_filter, fqlLog, stopReason>>
    /\ UNCHANGED <<envVars, paVars, fdVars, reqVars, imVars, clVars, otherVars, poVars>>

(* ------------------ action_search.search_by_use_case -------------------- *)
\* The inner loop over r's use cases from position k on, without the break.
RECURSIVE UseCaseLoopNoBreak(_, _, _)
UseCaseLoopNoBreak(r, k, ucl) ==
    IF k > Len(r.use_cases)
    THEN <<>>
    ELSE IF Contains(Lower(r.use_cases[k]), ucl)
         THEN <<r>> \o UseCaseLoopNoBreak(r, k + 1, ucl)
         ELSE UseCaseLoopNoBreak(r, k + 1, ucl)

\* The inner loop over r's use cases from position k on: what it appends to
\* results (r at the first matching use case, then break).
RECURSIVE UseCaseLoop(_, _, _)
UseCaseLoop(r, k, ucl) ==
    IF k > Len(r.use_cases)
    THEN <<>>
    ELSE IF Contains(Lower(r.use_cases[k]), ucl)
         THEN <<r>>
         ELSE UseCaseLoop(r, k + 1, ucl)

\* The outer loop over the catalog from position i on.
RECURSIVE UseCaseScan(_, _, _)
UseCaseScan(all, i, ucl) ==
    IF i > Len(all)
    THEN <<>>
    ELSE UseCaseLoop(all[i], 1, ucl) \o UseCaseScan(all, i + 1, ucl)

SearchByUseCase ==
    /\ pc = "idle"
    /\ \E use_case \in Queries, all_actions \in ScanResults :
         /\ query' = use_case
         /\ scans' = Append(scans, all_actions)
         /\ tier' = "scan" /\ pc' = "uc_done"
         /\ IF all_actions[1] = "raised"
            THEN outcome' = "raised" /\ result' = <<>>
            ELSE outcome' = "returned"
                 /\ result' = UseCaseScan(all_actions[2], 1, Lower(use_case))
    /\ UNCHANGED <<remoteFolds, vendor_filter, fqlLog, stopReason>>
    /\ UNCHANGED <<envVars, paVars, fdVars, reqVars, imVars, clVars, otherVars, poVars>>

(* ------------------ action_search.list_vendors -------------------------- *)
Range(f) == { f[i] : i \in DOMAIN f }

NewGroup == [count |-> 0, use_cases |-> {}, has_permission |-> TRUE]

\* One iteration of the loop, with has_permission taken from the entry.
AddToGroupLastWins(vendors, r) ==
    LET v == r.vendor
        old == IF v \in DOMAIN vendors THEN vendors[v] ELSE NewGroup
        new == [count |-> old.count + 1,
                use_cases |-> old.use_cases \cup Range(r.use_cases),
                has_permission |-> r.has_permission]
    IN [w \in DOMAIN vendors \cup {v} |-> IF w = v THEN new ELSE vendors[w]]

\* One iteration of the loop of list_vendors.
AddToGroup(vendors, r) ==
    LET v == r.vendor
        old == IF v \in DOMAIN vendors THEN vendors[v] ELSE NewGroup
        new == [count |-> old.count + 1,
                use_cases |-> old.use_cases \cup Range(r.use_cases),
                has_permission |-> IF ~ r.has_permission THEN FALSE
                                   ELSE old.has_permission]
    IN [w \in DOMAIN vendors \cup {v} |-> IF w = v THEN new ELSE vendors[w]]

\* The loop of list_vendors from position i on.
RECURSIVE GroupByVendor(_, _, _)
GroupByVendor(all, i, vendors) ==
    IF i > Len(all)
    THEN vendors
    ELSE GroupByVendor(all, i + 1, AddToGroup(vendors, all[i]))

EmptyGroups == [v \in {} |-> NewGroup]

ListVendors ==
    /\ pc = "idle"
    /\ \E all_actions \in ScanResults :
         /\ scans' = Append(scans, all_actions)
         /\ tier' = "scan" /\ pc' = "lv_done"
         /\ IF all_actions[1] = "raised"
            THEN outcome' = "raised" /\ result' = EmptyGroups
            ELSE outcome' = "returned"
                 /\ result' = GroupByVendor(all_actions[2], 1, EmptyGroups)
    /\ UNCHANGED <<remoteFolds, query, vendor_filter, fqlLog, stopReason>>
    /\ UNCHANGED <<envVars, paVars, fdVars, reqVars, imVars, clVars, otherVars, poVars>>

(* ------------------ the search specification ---------------------------- *)
\* One search operation against a catalog that the remote serves and that the
\* full scan reads; the fetch and cache machinery is at rest.
InitSearch ==
    /\ now = StartTime /\ ticks = 0 /\ runs = 0
    /\ cacheFile = NoFile /\ lastSave = NoSave
    /\ pc = "idle"
    /\ catalog \in ActionCatalogs /\ catalogTotal = Len(catalog)
    /\ resources = <<>> /\ offset = 0 /\ total = <<>> /\ attempt = 1
    /\ sleeps = <<>> /\ saves = <<>>
    /\ pageRequests = 0 /\ okRequests = 0 /\ failed = FALSE
    /\ outcome = "none" /\ result = <<>> /\ stopReason = "none"
    /\ definitions = <<>> /\ definitionsTotal = 0
    /\ all_defs = <<>> /\ def_offset = 0
    /\ remoteFolds \in BOOLEAN
    /\ query = <<>> /\ vendor_filter = <<>>
    /\ fqlLog = <<>> /\ scans = <<>> /\ tier = "none"
    /\ ImportIdle
    /\ ClassifyIdle /\ PollIdle /\ OtherIdle

NextSearch ==
    \/ SearchActions_Direct
    \/ SearchActions_Narrowed
    \/ SearchActions_SingleWord
    \/ ClientSideSearch
    \/ SearchByVendor_Remote
    \/ SearchByVendor_Scan
    \/ SearchByUseCase
    \/ ListVendors

SpecSearch == InitSearch /\ [][NextSearch]_vars

(* ------------------ import_workflow: inputs ----------------------------- *)
\* Files per batch.
MaxBatch == 2

T_wf == <<"w", "f">>
T_WF == <<"W", "F">>
T_x == <<"x">>

\* A file on disk as the scripts read it: whether it exists and can be opened,
\* the name extract_name_from_yaml finds (<<>> for None), and what
\* preflight_check looks for.  A file whose name line is found has the name key.
YamlFile(kind, name, header, name_key, trigger, placeholder) ==
    [kind |-> kind, name |-> name, header |-> header, name_key |-> name_key,
     trigger |-> trigger, placeholder |-> placeholder]

YamlFiles ==
    { YamlFile("ok", T_wf, TRUE, TRUE, TRUE, FALSE),
      YamlFile("ok", T_x, TRUE, TRUE, TRUE, FALSE),
      YamlFile("ok", T_x, FALSE, TRUE, TRUE, FALSE),
      YamlFile("ok", T_x, TRUE, TRUE, FALSE, FALSE),
      YamlFile("ok", T_x, TRUE, TRUE, TRUE, TRUE),
      YamlFile("ok", <<>>, TRUE, FALSE, TRUE, FALSE),
      YamlFile("ok", <<>>, TRUE, TRUE, TRUE, FALSE),
      YamlFile("missing", <<>>, FALSE, FALSE, FALSE, FALSE),
      YamlFile("unreadable", <<>>, FALSE, FALSE, FALSE, FALSE) }

Batches == UNION { [1..n -> YamlFiles] : n \in 1..MaxBatch }

\* The workflow definitions the remote holds before the run.
ExistingDefs ==
    { <<>>,
      <<[name |-> T_WF, id |-> "d1"]>>,
      <<[name |-> T_WF, id |-> ""]>>,
      <<[name |-> T_wf, id |-> "d1"], [name |-> T_WF, id |-> "d2"]>> }

(* ------------------ import_workflow.extract_name_from_yaml -------------- *)
\* open() has no guard: a file that is missing or cannot be opened raises.
ExtractName(f) ==
    IF f.kind # "ok" THEN <<"raised">> ELSE <<"returned", f.name>>

(* ------------------ import_workflow.check_duplicate --------------------- *)
\* dup_id: the id of the definition with that lowered name, <<>> for None.
CheckDuplicate(name, names) ==
    IF Lower(name) \in DOMAIN names
    THEN <<names[Lower(name)].id>>
    ELSE <<>>

\* "if dup_id:"
Truthy(dup_id) == dup_id # <<>> /\ dup_id[1] # ""

\* existing_names = {d.get("name", "").lower(): d for d in all_defs}
RECURSIVE BuildIndex(_, _, _)
BuildIndex(defs, i, names) ==
    IF i > Len(defs)
    THEN names
    ELSE BuildIndex(defs, i + 1,
            [n \in DOMAIN names \cup {Lower(defs[i].name)} |->
                IF n = Lower(defs[i].name) THEN defs[i] ELSE names[n]])

(* ------------------ validate.preflight_check / validate_file ------------ *)
Issue(level, text) == [level |-> level, text |-> text]

\* preflight_check: <<"raised">> or <<"returned", issues>>.
PreflightCheck(f) ==
    CASE f.kind = "missing" -> <<"returned", {Issue("", "File not found")}>>
      [] f.kind = "unreadable" -> <<"raised">>
      [] OTHER ->
           <<"returned",
             (IF f.header THEN {} ELSE {Issue("WARNING", "Missing header comment")})
             \cup (IF f.name_key THEN {} ELSE {Issue("ERROR", "Missing key name")})
             \cup (IF f.trigger THEN {} ELSE {Issue("ERROR", "Missing key trigger")})
             \cup (IF f.placeholder THEN {Issue("ERROR", "Found PLACEHOLDER markers")}
                   ELSE {})>>

\* has_errors, counting every issue as an error.
HasIssues(issues) == issues # {}

\* has_errors = any(i.startswith("ERROR") for i in issues)
HasErrors(issues) == \E i \in issues : i.level = "ERROR"

\* api_post_multipart opens the file before it posts: no request leaves for a
\* file that cannot be opened, and the exception is caught by the caller.
CanPost(f) == f.kind = "ok"

DryRunOutcomes == {"ok", "errors", "exception"}
ImportOutcomes == {"ok_id", "ok_no_id", "errors", "exception"}

(* ------------------ import_workflow.main -------------------------------- *)
Stage(i, stage, ok) == [item |-> i, stage |-> stage, ok |-> ok]

\* The report rewritten at every step: every item done so far takes the
\* status of the one just finished.
AdvanceOverwrites(status, wf_id) ==
    /\ im_results' = [k \in 1..item |-> [file |-> k, status |-> status, id |-> wf_id]]
    /\ item' = item + 1
    /\ pc' = IF item = Len(files) THEN "im_summary" ELSE "im_dup"
    /\ UNCHANGED <<outcome, exit_code>>

\* results.append((basename, status, wf_id)) and on to the next file, or to
\* the summary after the last one.
Advance(status, wf_id) ==
    /\ im_results' = Append(im_results, [file |-> item, status |-> status, id |-> wf_id])
    /\ item' = item + 1
    /\ pc' = IF item = Len(files) THEN "im_summary" ELSE "im_dup"
    /\ UNCHANGED <<outcome, exit_code>>

\* An exception no handler catches ends the process with a traceback.
Abort ==
    /\ pc' = "im_aborted" /\ outcome' = "raised" /\ exit_code' = <<1>>
    /\ UNCHANGED <<im_results, item>>

FetchOutcomes == {"ok", "raises"}

\* "if not args.skip_duplicate_check:", fetching whatever the flag.
FetchesAlways(skip) == TRUE

\* "if not args.skip_duplicate_check:"
FetchesNames(skip) == ~ skip

\* The index built from the k definitions fetched before the failure.
NamesAfterFetchKeepsPages(fetch, defs, k) ==
    IF fetch = "ok" THEN BuildIndex(defs, 1, NoNames)
    ELSE BuildIndex(SubSeq(defs, 1, k), 1, NoNames)

\* Lines 88-97: existing_names is assigned only after fetch_all_definitions
\* has returned; when it raises, with k definitions fetched so far, the
\* except clause leaves existing_names = {}.
NamesAfterFetch(fetch, defs, k) ==
    IF fetch = "ok" THEN BuildIndex(defs, 1, NoNames) ELSE NoNames

\* Pre-fetch of the existing workflow names.
Main_Prefetch ==
    /\ pc = "idle" /\ item = 0
    /\ IF ~ FetchesNames(skip_duplicate_check)
       THEN existing_names' = NoNames /\ UNCHANGED stages
       ELSE \E fetch \in FetchOutcomes, k \in 0..Len(definitions) :
              /\ stages' = Append(stages, Stage(0, "fetch", fetch = "ok"))
              /\ existing_names' = NamesAfterFetch(fetch, definitions, k)
    /\ item' = 1 /\ pc' = "im_dup"
    /\ UNCHANGED <<files, skip_validate, skip_duplicate_check, im_results, exit_code>>
    /\ UNCHANGED <<envVars, paVars, fdVars, reqVars, retVars, srVars, clVars, otherVars, poVars>>

\* "if dup_id: ... continue", never skipping.
SkipsNever(dup_id) == FALSE

\* "if dup_id: ... continue"
SkipsAsDuplicate(dup_id) == Truthy(dup_id)

\* The duplicate check of one file.
Main_DuplicateCheck ==
    /\ pc = "im_dup"
    /\ IF existing_names = NoNames
       THEN pc' = "im_validate" /\ UNCHANGED <<stages, im_results, item, outcome, exit_code>>
       ELSE LET wf_name == ExtractName(files[item]) IN
            IF wf_name[1] = "raised"
            THEN Abort /\ UNCHANGED stages
            ELSE IF wf_name[2] = <<>>
                 THEN pc' = "im_validate"
                      /\ UNCHANGED <<stages, im_results, item, outcome, exit_code>>
                 ELSE LET dup_id == CheckDuplicate(wf_name[2], existing_names) IN
                      /\ stages' = Append(stages,
                                      Stage(item, "duplicate_check", ~ Truthy(dup_id)))
                      /\ IF SkipsAsDuplicate(dup_id)
                         THEN Advance("DUPLICATE", <<>>)
                         ELSE pc' = "im_validate"
                              /\ UNCHANGED <<im_results, item, outcome, exit_code>>
    /\ UNCHANGED <<files, skip_validate, skip_duplicate_check, existing_names>>
    /\ UNCHANGED <<envVars, paVars, fdVars, reqVars, result, stopReason, srVars,
                   clVars, otherVars, poVars>>

\* "if not passed: ... continue", never skipping.
ProceedsAlways(passed) == TRUE

\* "if not passed: ... continue"
Proceeds(passed) == passed

\* "if not args.skip_validate:", validating whatever the flag.
ValidatesAlways(skip) == TRUE

\* "if not args.skip_validate:"
Validates(skip) == ~ skip

\* validate_file for one file, unless --skip-validate.
Main_Validate ==
    /\ pc = "im_validate"
    /\ IF ~ Validates(skip_validate)
       THEN pc' = "im_import" /\ UNCHANGED <<stages, im_results, item, outcome, exit_code>>
       ELSE LET issues == PreflightCheck(files[item]) IN
            IF issues[1] = "raised"
            THEN Abort /\ UNCHANGED stages
            ELSE IF HasErrors(issues[2])
                 THEN Advance("VALIDATION FAILED", <<>>) /\ UNCHANGED stages
                 ELSE IF ~ CanPost(files[item])
                      THEN Advance("VALIDATION FAILED", <<>>) /\ UNCHANGED stages
                      ELSE \E answer \in DryRunOutcomes :
                             /\ stages' = Append(stages, Stage(item, "dry_run", answer = "ok"))
                             /\ IF Proceeds(answer = "ok")
                                THEN pc' = "im_import"
                                     /\ UNCHANGED <<im_results, item, outcome, exit_code>>
                                ELSE Advance("VALIDATION FAILED", <<>>)
    /\ UNCHANGED <<files, skip_validate, skip_duplicate_check, existing_names>>
    /\ UNCHANGED <<envVars, paVars, fdVars, reqVars, result, stopReason, srVars,
                   clVars, otherVars, poVars>>

\* import_file for one file.
Main_Import ==
    /\ pc = "im_import"
    /\ IF ~ CanPost(files[item])
       THEN Advance("IMPORT FAILED", <<>>) /\ UNCHANGED stages
       ELSE \E answer \in ImportOutcomes :
              /\ stages' = Append(stages,
                              Stage(item, "import", answer \in {"ok_id", "ok_no_id"}))
              /\ CASE answer = "ok_id" -> Advance("IMPORTED", <<"new">>)
                   [] answer = "ok_no_id" -> Advance("IMPORTED", <<>>)
                   [] OTHER -> Advance("IMPORT FAILED", <<>>)
    /\ UNCHANGED <<files, skip_validate, skip_duplicate_check, existing_names>>
    /\ UNCHANGED <<envVars, paVars, fdVars, reqVars, result, stopReason, srVars,
                   clVars, otherVars, poVars>>

\* The summary and the exit status.
Main_Summary ==
    /\ pc = "im_summary"
    /\ LET duplicates == { i \in DOMAIN im_results : im_results[i].status = "DUPLICATE" }
           failures == { i \in DOMAIN im_results :
                           im_results[i].status \in {"VALIDATION FAILED", "IMPORT FAILED"} }
       IN exit_code' = IF failures # {} \/ duplicates # {} THEN <<1>> ELSE <<0>>
    /\ pc' = "im_done" /\ outcome' = "returned"
    /\ UNCHANGED <<files, skip_validate, skip_duplicate_check, existing_names, item,
                   im_results, stages>>
    /\ UNCHANGED <<envVars, paVars, fdVars, reqVars, result, stopReason, srVars,
                   clVars, otherVars, poVars>>

\* One run of import_workflow.py on a batch; the fetch and cache machinery and
\* the searches are at rest.
InitImport ==
    /\ now = StartTime /\ ticks = 0 /\ runs = 0
    /\ cacheFile = NoFile /\ lastSave = NoSave
    /\ pc = "idle"
    /\ catalog = <<>> /\ catalogTotal = 0
    /\ resources = <<>> /\ offset = 0 /\ total = <<>> /\ attempt = 1
    /\ sleeps = <<>> /\ saves = <<>>
    /\ pageRequests = 0 /\ okRequests = 0 /\ failed = FALSE
    /\ outcome = "none" /\ result = <<>> /\ stopReason = "none"
    /\ definitions \in ExistingDefs /\ definitionsTotal = Len(definitions)
    /\ all_defs = <<>> /\ def_offset = 0
    /\ SearchIdle
    /\ files \in Batches
    /\ skip_validate \in BOOLEAN /\ skip_duplicate_check \in BOOLEAN
    /\ existing_names = NoNames /\ item = 0
    /\ im_results = <<>> /\ stages = <<>> /\ exit_code = <<>>
    /\ ClassifyIdle /\ PollIdle /\ OtherIdle

NextImport ==
    \/ Main_Prefetch
    \/ Main_DuplicateCheck
    \/ Main_Validate
    \/ Main_Import
    \/ Main_Summary

SpecImport == InitImport /\ [][NextImport]_vars

(* ------------------ duplicate classification, run twice ----------------- *)
\* Classification runs per behaviour.
MaxClassifyRuns == 2

\* The loop of main leaves existing_names as the pre-fetch built it; here the
\* name of a clean file is added to it.
IndexAfterAddsName(names, name) ==
    [n \in DOMAIN names \cup {Lower(name)} |->
        IF n = Lower(name) THEN [name |-> name, id |-> "new"] ELSE names[n]]

\* The loop of main leaves existing_names as the pre-fetch built it.
IndexAfter(names, name) == names

\* The duplicate-check stage of import_workflow.main over the files from
\* position i on: DUPLICATE or clean per file, ending with "raised" where
\* extract_name_from_yaml raises.
RECURSIVE ImportClasses(_, _, _)
ImportClasses(fs, i, names) ==
    IF i > Len(fs) THEN <<>>
    ELSE IF names = NoNames
    THEN <<"clean">> \o ImportClasses(fs, i + 1, names)
    ELSE LET wf_name == ExtractName(fs[i]) IN
         IF wf_name[1] = "raised" THEN <<"raised">>
         ELSE IF wf_name[2] = <<>>
         THEN <<"clean">> \o ImportClasses(fs, i + 1, names)
         ELSE IF SkipsAsDuplicate(CheckDuplicate(wf_name[2], names))
         THEN <<"DUPLICATE">> \o ImportClasses(fs, i + 1, names)
         ELSE <<"clean">> \o ImportClasses(fs, i + 1, IndexAfter(names, wf_name[2]))

\* query_workflows.extract_name_from_yaml: a missing file gives None, a file
\* that cannot be opened raises.
ExtractNameGuarded(f) ==
    CASE f.kind = "missing" -> <<"returned", <<>>>>
      [] f.kind = "unreadable" -> <<"raised">>
      [] OTHER -> <<"returned", f.name>>

\* The --check-yaml loop of query_workflows.main over the files from position
\* i on: DUPLICATE, clean or skipped (no name) per file.
RECURSIVE CheckYamlClasses(_, _, _)
CheckYamlClasses(fs, i, all_names) ==
    IF i > Len(fs) THEN <<>>
    ELSE LET name == ExtractNameGuarded(fs[i]) IN
         IF name[1] = "raised" THEN <<"raised">>
         ELSE IF name[2] = <<>>
         THEN <<"skipped">> \o CheckYamlClasses(fs, i + 1, all_names)
         ELSE IF Lower(name[2]) \in DOMAIN all_names
         THEN <<"DUPLICATE">> \o CheckYamlClasses(fs, i + 1, all_names)
         ELSE <<"clean">> \o CheckYamlClasses(fs, i + 1, all_names)

Classification(tool, fetch, classes) ==
    [tool |-> tool, fetch |-> fetch, classes |-> classes]

\* One run of import_workflow.py, up to the classification of its files.
ClassifyRun_Import ==
    /\ pc = "idle" /\ Len(classifications) < MaxClassifyRuns
    /\ IF ~ FetchesNames(skip_duplicate_check)
       THEN classifications' = Append(classifications,
                Classification("import", "skipped", ImportClasses(files, 1, NoNames)))
       ELSE \E fetch \in FetchOutcomes :
              LET names == IF fetch = "ok" THEN BuildIndex(definitions, 1, NoNames)
                           ELSE NoNames
              IN classifications' = Append(classifications,
                     Classification("import", fetch, ImportClasses(files, 1, names)))
    /\ UNCHANGED <<envVars, pc, paVars, fdVars, reqVars, retVars, srVars, imVars, poVars, otherVars>>

\* One run of query_workflows.py --check-yaml.
ClassifyRun_CheckYaml ==
    /\ pc = "idle" /\ Len(classifications) < MaxClassifyRuns
    /\ \E fetch \in FetchOutcomes :
         classifications' = Append(classifications,
            Classification("check_yaml", fetch,
               IF fetch = "ok"
               THEN CheckYamlClasses(files, 1, BuildIndex(definitions, 1, NoNames))
               ELSE <<"raised">>))
    /\ UNCHANGED <<envVars, pc, paVars, fdVars, reqVars, retVars, srVars, imVars, poVars, otherVars>>

\* The same files are classified by several runs against definitions that no
\* run changes.
InitClassify ==
    /\ now = StartTime /\ ticks = 0 /\ runs = 0
    /\ cacheFile = NoFile /\ lastSave = NoSave
    /\ pc = "idle"
    /\ catalog = <<>> /\ catalogTotal = 0
    /\ resources = <<>> /\ offset = 0 /\ total = <<>> /\ attempt = 1
    /\ sleeps = <<>> /\ saves = <<>>
    /\ pageRequests = 0 /\ okRequests = 0 /\ failed = FALSE
    /\ outcome = "none" /\ result = <<>> /\ stopReason = "none"
    /\ definitions \in ExistingDefs /\ definitionsTotal = Len(definitions)
    /\ all_defs = <<>> /\ def_offset = 0
    /\ SearchIdle
    /\ files \in Batches
    /\ skip_validate = FALSE /\ skip_duplicate_check \in BOOLEAN
    /\ existing_names = NoNames /\ item = 0
    /\ im_results = <<>> /\ stages = <<>> /\ exit_code = <<>>
    /\ ClassifyIdle /\ PollIdle /\ OtherIdle

NextClassify ==
    \/ ClassifyRun_Import
    \/ ClassifyRun_CheckYaml

SpecClassify == InitClassify /\ [][NextClassify]_vars

(* ------------------ execute.poll_results -------------------------------- *)
\* Largest --timeout and interval (seconds).
MaxTimeout == 10
MaxInterval == 5
\* Longest status check and longest submission request (seconds).
MaxCheckTime == 1
MaxSubmitTime == 1

\* --timeout is any integer (type=int); the interval is positive.
Timeouts == {0 - 1} \cup (0..MaxTimeout)
Intervals == 1..MaxInterval

\* What execute_workflow brings: an execution id, success without an id, or a
\* failure.
SubmitOutcomes == {"ok", "no_id", "failed"}

\* What one status check brings: api_get raises, the response has no
\* resource, or the first resource has this status.
CheckAnswers == {"raises", "no_resource", "running", "completed", "failed", "error"}

\* The test that ends the loop, ending it on a failed request too.
EndsLoopOnError(answer) == answer \in {"completed", "failed", "error", "raises"}

\* "if status in ('completed', 'failed', 'error'): return result"
EndsLoop(answer) == answer \in {"completed", "failed", "error"}

\* The loop condition with <= for <.
TimeRemainsInclusive(t, start, timeout) == t - start <= timeout

\* "while time.time() - start < timeout"
TimeRemains(t, start, timeout) == t - start < timeout

\* time.sleep, sleeping twice the interval.
SleepsForDouble(interval) == interval + interval

\* time.sleep(interval)
SleepsFor(interval) == interval

\* main: execute_workflow, then poll_results when --wait is given and an
\* execution id came back; poll_results reads start when it is called.
ExecuteMain_Submit ==
    /\ pc = "idle"
    /\ \E timeout \in Timeouts, interval \in Intervals, d \in 0..MaxSubmitTime,
          answer \in SubmitOutcomes, wait \in BOOLEAN :
         /\ po_timeout' = timeout /\ po_interval' = interval
         /\ po_submitted' = now
         /\ now' = now + d
         /\ IF answer = "ok" /\ wait
            THEN /\ po_start' = now + d
                 /\ pc' = "po_loop"
                 /\ UNCHANGED <<outcome, result, stopReason>>
            ELSE /\ po_start' = 0
                 /\ pc' = "po_done"
                 /\ outcome' = "returned" /\ result' = <<>>
                 /\ stopReason' = IF answer = "failed" THEN "execution_failed"
                                  ELSE "not_polled"
    /\ UNCHANGED <<po_checks, po_last, po_spent>>
    /\ UNCHANGED <<ticks, runs, cacheFile, lastSave, paVars, fdVars, reqVars,
                   srVars, imVars, clVars, otherVars>>

\* One status check of the loop.
Poll_Check ==
    /\ pc = "po_loop"
    /\ TimeRemains(now, po_start, po_timeout)
    /\ \E answer \in CheckAnswers, c \in 0..MaxCheckTime :
         /\ po_checks' = po_checks + 1
         /\ po_last' = answer
         /\ now' = now + c /\ po_spent' = po_spent + c
         /\ IF EndsLoop(answer)
            THEN /\ pc' = "po_done"
                 /\ outcome' = "returned" /\ result' = <<answer>>
                 /\ stopReason' = "terminal"
            ELSE /\ pc' = "po_sleep"
                 /\ UNCHANGED <<outcome, result, stopReason>>
    /\ UNCHANGED <<po_timeout, po_interval, po_submitted, po_start>>
    /\ UNCHANGED <<ticks, runs, cacheFile, lastSave, paVars, fdVars, reqVars,
                   srVars, imVars, clVars, otherVars>>

\* time.sleep(interval) after a check that did not end the loop.
Poll_Sleep ==
    /\ pc = "po_sleep"
    /\ now' = now + SleepsFor(po_interval)
    /\ pc' = "po_loop"
    /\ UNCHANGED <<ticks, runs, cacheFile, lastSave, paVars, fdVars, reqVars, retVars,
                   srVars, imVars, clVars, otherVars, poVars>>

\* The loop condition fails: "return None".
Poll_Timeout ==
    /\ pc = "po_loop"
    /\ ~ TimeRemains(now, po_start, po_timeout)
    /\ pc' = "po_done"
    /\ outcome' = "returned" /\ result' = <<>> /\ stopReason' = "timeout"
    /\ UNCHANGED <<envVars, paVars, fdVars, reqVars, srVars, imVars, clVars, otherVars, poVars>>

\* main's exit status, by how the run ended: sys.exit(1) after a failed
\* submission and after poll_results returned None; otherwise main returns.
ExitStatus(reason) == IF reason \in {"execution_failed", "timeout"} THEN 1 ELSE 0

InitPoll ==
    /\ now = StartTime /\ ticks = 0 /\ runs = 0
    /\ cacheFile = NoFile /\ lastSave = NoSave
    /\ pc = "idle"
    /\ catalog = <<>> /\ catalogTotal = 0
    /\ resources = <<>> /\ offset = 0 /\ total = <<>> /\ attempt = 1
    /\ sleeps = <<>> /\ saves = <<>>
    /\ pageRequests = 0 /\ okRequests = 0 /\ failed = FALSE
    /\ outcome = "none" /\ result = <<>> /\ stopReason = "none"
    /\ definitions = <<>> /\ definitionsTotal = 0
    /\ all_defs = <<>> /\ def_offset = 0
    /\ SearchIdle /\ ImportIdle /\ ClassifyIdle /\ PollIdle /\ OtherIdle

NextPoll ==
    \/ ExecuteMain_Submit
    \/ Poll_Check
    \/ Poll_Sleep
    \/ Poll_Timeout

SpecPoll == InitPoll /\ [][NextPoll]_vars

(* ======================= token provider ================================ *)
\* cs_auth.py: the process-wide bearer token and its lazy refresh.
MaxTokenCalls == 3
MaxTokenTicks == 2

\* "- 60": the safety margin taken off the token's lifetime.
TokenMargin == 60

\* body.get("expires_in", 1799)
DefaultExpiresIn == 1799

\* What the token endpoint can answer: it raises, or gives a token with a
\* lifetime, <<>> when the body has no "expires_in".
TokenValues == {"", "tokenA"}
ExpiresIns == {<<>>, <<TokenMargin - 1>>, <<TokenMargin + 1>>, <<TokenMargin + 2>>}
TokenClockSteps == {1, DefaultExpiresIn - TokenMargin - 1}
\* Seconds a token request can take.
TokenLatencies == {0, 1}

ExpiresIn(given) == IF given = <<>> THEN DefaultExpiresIn ELSE given[1]

\* The expiry stored without the margin.
ExpiresAtNoMargin(t, expires_in) == t + expires_in

\* _token_cache["expires"] = now + body.get("expires_in", 1799) - 60
ExpiresAt(t, expires_in) == t + expires_in - TokenMargin

\* if _token_cache["token"] and now < _token_cache["expires"]
CachedTokenValid(t) == tk_token # <<>> /\ tk_token # <<"">> /\ t < tk_expires

TokenCall(at, did, token) == [at |-> at, did |-> did, token |-> token]

\* get_token, answered from the cache: no request.
GetToken_Cached ==
    /\ pc = "idle"
    /\ Len(tk_log) < MaxTokenCalls
    /\ CachedTokenValid(now)
    /\ tk_log' = Append(tk_log, TokenCall(now, "cached", tk_token))
    /\ UNCHANGED <<tk_token, tk_expires, tk_issued, tk_expires_in, tk_requests>>
    /\ UNCHANGED <<envVars, pc, paVars, fdVars, reqVars, retVars, srVars, imVars,
                   clVars, poVars, vaVars, rcVars>>

\* get_token with no valid cached token: one POST to /oauth2/token, whose
\* answer fills the cache, with the expiry counted from the clock reading
\* taken before the request.
GetToken_Request ==
    /\ pc = "idle"
    /\ Len(tk_log) < MaxTokenCalls
    /\ ~ CachedTokenValid(now)
    /\ \E token \in TokenValues, given \in ExpiresIns, d \in TokenLatencies :
         /\ tk_requests' = tk_requests + 1
         /\ tk_token' = <<token>>
         /\ tk_expires' = ExpiresAt(now, ExpiresIn(given))
         /\ tk_issued' = now
         /\ tk_expires_in' = ExpiresIn(given)
         /\ tk_log' = Append(tk_log, TokenCall(now, "requested", <<token>>))
         /\ now' = now + d
    /\ UNCHANGED <<ticks, runs, cacheFile, lastSave>>
    /\ UNCHANGED <<pc, paVars, fdVars, reqVars, retVars, srVars, imVars, clVars, poVars, vaVars, rcVars>>

\* The token request fails: requests.post or raise_for_status raises out of
\* get_token and the cache keeps what it held.
GetToken_Raises ==
    /\ pc = "idle"
    /\ Len(tk_log) < MaxTokenCalls
    /\ ~ CachedTokenValid(now)
    /\ \E d \in TokenLatencies :
         /\ tk_requests' = tk_requests + 1
         /\ tk_log' = Append(tk_log, TokenCall(now, "raised", <<>>))
         /\ now' = now + d
    /\ UNCHANGED <<tk_token, tk_expires, tk_issued, tk_expires_in>>
    /\ UNCHANGED <<ticks, runs, cacheFile, lastSave>>
    /\ UNCHANGED <<pc, paVars, fdVars, reqVars, retVars, srVars, imVars, clVars, poVars, vaVars, rcVars>>

\* Time passes between two API calls of the run.
TokenTick ==
    /\ pc = "idle"
    /\ ticks < MaxTokenTicks
    /\ \E d \in TokenClockSteps : now' = now + d
    /\ ticks' = ticks + 1
    /\ UNCHANGED <<runs, cacheFile, lastSave>>
    /\ UNCHANGED <<pc, paVars, fdVars, reqVars, retVars, auxVars>>

InitToken ==
    /\ now = StartTime /\ ticks = 0 /\ runs = 0
    /\ cacheFile = NoFile /\ lastSave = NoSave
    /\ pc = "idle"
    /\ catalog = <<>> /\ catalogTotal = 0
    /\ resources = <<>> /\ offset = 0 /\ total = <<>> /\ attempt = 1
    /\ sleeps = <<>> /\ saves = <<>>
    /\ pageRequests = 0 /\ okRequests = 0 /\ failed = FALSE
    /\ outcome = "none" /\ result = <<>> /\ stopReason = "none"
    /\ definitions = <<>> /\ definitionsTotal = 0
    /\ all_defs = <<>> /\ def_offset = 0
    /\ SearchIdle /\ ImportIdle /\ ClassifyIdle /\ PollIdle /\ OtherIdle

NextToken ==
    \/ GetToken_Cached
    \/ GetToken_Request
    \/ GetToken_Raises
    \/ TokenTick

SpecToken == InitToken /\ [][NextToken]_vars

(* ============================ validate.py ============================== *)
\* validate_file(file_path, preflight_only): <<"raised">> when the pre-flight
\* read raises, else <<"returned", passed, requests sent>>; answer is what
\* the remote dry-run brings when it is asked.
ValidateFile(f, only, answer) ==
    LET issues == PreflightCheck(f) IN
    IF issues[1] = "raised" THEN <<"raised">>
    ELSE IF HasErrors(issues[2]) THEN <<"returned", FALSE, 0>>
    ELSE IF only THEN <<"returned", ~ HasErrors(issues[2]), 0>>
    ELSE IF ~ CanPost(f) THEN <<"returned", FALSE, 0>>
    ELSE <<"returned", answer = "ok", 1>>

\* main: the arguments are parsed, the loop starts at the first file.
ValidateMain_Start ==
    /\ pc = "idle" /\ item = 0
    /\ item' = 1 /\ pc' = "va_file"
    /\ UNCHANGED <<files, skip_validate, skip_duplicate_check, existing_names,
                   im_results, stages, exit_code>>
    /\ UNCHANGED <<envVars, paVars, fdVars, reqVars, retVars, srVars, clVars, poVars,
                   otherVars>>

\* main: validate_file for one file of the batch.
ValidateMain_File ==
    /\ pc = "va_file"
    /\ \E answer \in DryRunOutcomes :
         LET v == ValidateFile(files[item], preflight_only, answer) IN
         IF v[1] = "raised"
         THEN /\ pc' = "va_aborted" /\ outcome' = "raised" /\ exit_code' = <<1>>
              /\ UNCHANGED <<va_passed, stages, item>>
         ELSE /\ va_passed' = Append(va_passed, v[2])
              /\ stages' = IF v[3] = 1
                           THEN Append(stages, Stage(item, "dry_run", answer = "ok"))
                           ELSE stages
              /\ item' = item + 1
              /\ pc' = IF item = Len(files) THEN "va_summary" ELSE "va_file"
              /\ UNCHANGED <<outcome, exit_code>>
    /\ UNCHANGED <<files, skip_validate, skip_duplicate_check, existing_names,
                   im_results, preflight_only>>
    /\ UNCHANGED <<envVars, paVars, fdVars, reqVars, result, stopReason, srVars, clVars,
                   poVars, tkVars, rcVars>>

\* main: "All files passed validation." or sys.exit(1).
ValidateMain_Summary ==
    /\ pc = "va_summary"
    /\ exit_code' = IF \A k \in DOMAIN va_passed : va_passed[k] THEN <<0>> ELSE <<1>>
    /\ pc' = "va_done" /\ outcome' = "returned"
    /\ UNCHANGED <<files, skip_validate, skip_duplicate_check, existing_names, item,
                   im_results, stages>>
    /\ UNCHANGED <<envVars, paVars, fdVars, reqVars, result, stopReason, srVars, clVars,
                   poVars, otherVars>>

InitValidate ==
    /\ now = StartTime /\ ticks = 0 /\ runs = 0
    /\ cacheFile = NoFile /\ lastSave = NoSave
    /\ pc = "idle"
    /\ catalog = <<>> /\ catalogTotal = 0
    /\ resources = <<>> /\ offset = 0 /\ total = <<>> /\ attempt = 1
    /\ sleeps = <<>> /\ saves = <<>>
    /\ pageRequests = 0 /\ okRequests = 0 /\ failed = FALSE
    /\ outcome = "none" /\ result = <<>> /\ stopReason = "none"
    /\ definitions = <<>> /\ definitionsTotal = 0
    /\ all_defs = <<>> /\ def_offset = 0
    /\ SearchIdle
    /\ files \in Batches
    /\ skip_validate = FALSE /\ skip_duplicate_check = FALSE
    /\ existing_names = NoNames /\ item = 0
    /\ im_results = <<>> /\ stages = <<>> /\ exit_code = <<>>
    /\ ClassifyIdle /\ PollIdle /\ TokenIdle /\ RaceIdle
    /\ preflight_only \in BOOLEAN /\ va_passed = <<>>

NextValidate ==
    \/ ValidateMain_Start
    \/ ValidateMain_File
    \/ ValidateMain_Summary

SpecValidate == InitValidate /\ [][NextValidate]_vars

(* ================= two processes at the cache file ===================== *)
\* One process runs _save_cache while another runs _load_cache on the same
\* path.  The text of the file is a sequence of tokens: the opening of the
\* object with "ts", one token per entry, the closing.  json.dump hands the
\* text to the file piece by piece and json.load reads to the end of the
\* file, so either may take several system calls.
MaxRaceEntries == 2

Tok(t, v) == [t |-> t, v |-> v]

\* json.dump({"ts": ts, "resources": entries}, f)
SnapshotText(ts, entries) ==
    <<Tok("head", ts)>> \o [i \in 1..Len(entries) |-> Tok("entry", entries[i])]
                        \o <<Tok("close", 0)>>

OldEntries == { Entries(n) : n \in 1..MaxRaceEntries }
NewEntries == { [i \in 1..n |-> 10 + i] : n \in 1..(MaxRaceEntries + 1) }

IsSnapshotText(buf) ==
    /\ Len(buf) >= 2 /\ buf[1].t = "head" /\ buf[Len(buf)].t = "close"
    /\ \A i \in 2..(Len(buf) - 1) : buf[i].t = "entry"

\* A parser that accepts a text cut off or continued anywhere and takes the
\* entries it finds.
DecodeLenient(buf) ==
    IF buf # <<>> /\ buf[1].t = "head"
    THEN LET es == SelectSeq(buf, LAMBDA k : k.t = "entry")
         IN Snapshot(buf[1].v, [i \in 1..Len(es) |-> es[i].v])
    ELSE File("invalid_json", "absent", 0, FALSE, <<>>)

\* json.load(f): the object, or JSONDecodeError for any text that is not one
\* complete JSON document.
Decode(buf) ==
    IF IsSnapshotText(buf)
    THEN Snapshot(buf[1].v, [i \in 1..(Len(buf) - 2) |-> buf[i + 1].v])
    ELSE File("invalid_json", "absent", 0, FALSE, <<>>)

RaceFrame ==
    UNCHANGED <<envVars, pc, paVars, fdVars, reqVars, retVars, srVars, imVars, clVars,
                poVars, tkVars, vaVars, rc_old, rc_new>>

\* open(_CACHE_FILE, "w"): the file is created or cut to nothing; or open
\* raises OSError, which _save_cache swallows.
Writer_Open ==
    /\ w_pc = "idle"
    /\ \/ /\ rc_exists' = TRUE /\ rc_file' = <<>> /\ w_pc' = "write"
       \/ /\ w_pc' = "done" /\ UNCHANGED <<rc_exists, rc_file>>
    /\ UNCHANGED <<l_pc, l_buf, l_result>>
    /\ RaceFrame

\* One write of the next piece of the text.
Writer_Write ==
    /\ w_pc = "write"
    /\ LET text == SnapshotText(now, rc_new)
           written == Len(rc_file)
       IN \E k \in 1..(Len(text) - written) :
            /\ rc_file' = SubSeq(text, 1, written + k)
            /\ w_pc' = IF written + k = Len(text) THEN "done" ELSE "write"
    /\ UNCHANGED <<rc_exists, l_pc, l_buf, l_result>>
    /\ RaceFrame

\* A write raises OSError: the file stays cut off.
Writer_Fails ==
    /\ w_pc = "write"
    /\ w_pc' = "done"
    /\ UNCHANGED <<rc_exists, rc_file, l_pc, l_buf, l_result>>
    /\ RaceFrame

\* if not os.path.isfile(_CACHE_FILE): return None
Loader_IsFile ==
    /\ l_pc = "idle"
    /\ IF rc_exists
       THEN l_pc' = "open" /\ UNCHANGED l_result
       ELSE l_pc' = "done" /\ l_result' = Absent
    /\ UNCHANGED <<rc_exists, rc_file, w_pc, l_buf>>
    /\ RaceFrame

\* open(_CACHE_FILE, "r"), which can raise OSError.
Loader_Open ==
    /\ l_pc = "open"
    /\ \/ l_pc' = "read" /\ UNCHANGED l_result
       \/ l_pc' = "done" /\ l_result' = Absent
    /\ UNCHANGED <<rc_exists, rc_file, w_pc, l_buf>>
    /\ RaceFrame

\* One read of json.load: everything the file holds from the position
\* reached; a read that brings nothing is the end of the file, and the text
\* read is decoded and checked for freshness.
Loader_Read ==
    /\ l_pc = "read"
    /\ LET avail == SubSeq(rc_file, Len(l_buf) + 1, Len(rc_file)) IN
       IF avail # <<>>
       THEN l_buf' = l_buf \o avail /\ UNCHANGED <<l_pc, l_result>>
       ELSE /\ l_result' = LoadCache(Decode(l_buf), now)
            /\ l_pc' = "done" /\ UNCHANGED l_buf
    /\ UNCHANGED <<rc_exists, rc_file, w_pc>>
    /\ RaceFrame

InitRace ==
    /\ now = StartTime /\ ticks = 0 /\ runs = 0
    /\ cacheFile = NoFile /\ lastSave = NoSave
    /\ pc = "idle"
    /\ catalog = <<>> /\ catalogTotal = 0
    /\ resources = <<>> /\ offset = 0 /\ total = <<>> /\ attempt = 1
    /\ sleeps = <<>> /\ saves = <<>>
    /\ pageRequests = 0 /\ okRequests = 0 /\ failed = FALSE
    /\ outcome = "none" /\ result = <<>> /\ stopReason = "none"
    /\ definitions = <<>> /\ definitionsTotal = 0
    /\ all_defs = <<>> /\ def_offset = 0
    /\ SearchIdle /\ ImportIdle /\ ClassifyIdle /\ PollIdle /\ TokenIdle /\ ValidateIdle
    /\ rc_exists \in BOOLEAN
    /\ IF rc_exists THEN rc_old \in OldEntries ELSE rc_old = <<>>
    /\ rc_file = IF rc_exists THEN SnapshotText(StartTime, rc_old) ELSE <<>>
    /\ rc_new \in NewEntries
    /\ w_pc = "idle" /\ l_pc = "idle" /\ l_buf = <<>> /\ l_result = Absent

NextRace ==
    \/ Writer_Open
    \/ Writer_Write
    \/ Writer_Fails
    \/ Loader_IsFile
    \/ Loader_Open
    \/ Loader_Read

SpecRace == InitRace /\ [][NextRace]_vars

(* ============================ claims =================================== *)
\* A fetch of the action catalog has ended after a page used up its attempts.
Exhausted == pc = "pa_done" /\ stopReason = "exhausted"
\* A fetch of the action catalog has ended by reaching the total it read.
Completed == pc = "pa_done" /\ stopReason = "total"
\* The cache file is a well-formed snapshot: an object with a numeric
\* timestamp and an entry list.
WellFormed(f) == f.kind = "object" /\ f.tsKind = "number" /\ f.hasResources
\* The step is the first step of _paginate_all (the one that loads the cache).
StartsPaginateAll == pc = "idle" /\ pc' \in {"pa_request", "pa_done"}

\* C1 -- Retry bound: when every attempt for the page at some offset fails,
\* the fetch sends exactly 3 requests for that page, then ends, returning
\* exactly the entries of the pages fetched before, in catalog order; once
\* it has ended it sends no further request.
C1_RetryBound ==
    [][ /\ Exhausted' =>
            /\ pageRequests' = 3
            /\ outcome' = "returned"
            /\ Len(result') = offset'
            /\ result' = SubSeq(catalog', 1, offset')
        /\ pc = "pa_done" =>
            /\ pageRequests' <= pageRequests
            /\ okRequests' <= okRequests ]_vars

\* Two full pages were fetched before the page that failed three times.
C1_Witness == Exhausted /\ pageRequests = 3 /\ Len(result) = 2 * PageLimit

\* C2 -- Whatever the outcomes of the page requests, a fetch that entered the
\* page loop ends by returning the entries accumulated so far, never by an
\* exception, and no step of the loop drops an entry already accumulated.
C2_NeverRaisesNeverDiscards ==
    [][ /\ (pc = "pa_request" /\ pc' = "pa_done") =>
            /\ outcome' = "returned"
            /\ IsPrefix(resources, result')
            /\ result' = resources'
        /\ (pc = "pa_request" /\ pc' = "pa_request") =>
            IsPrefix(resources, resources') ]_vars

\* One page was fetched, the next one failed for good; the page is returned.
C2_Witness ==
    Exhausted /\ outcome = "returned" /\ okRequests = 1 /\ Len(result) = PageLimit

PagesOf(n, limit) == IF n = 0 THEN 1 ELSE (n + limit - 1) \div limit
C4_FullFetch ==
    /\ (pc = "pa_done" /\ stopReason \in {"total", "empty_page"}
          /\ ~failed /\ catalogTotal = Len(catalog)) =>
         /\ outcome = "returned" /\ result = catalog
         /\ okRequests = PagesOf(Len(catalog), PageLimit)
         /\ (stopReason = "empty_page") = (catalog = <<>>)
    /\ (pc = "fd_done" /\ ~failed /\ definitionsTotal = Len(definitions)) =>
         /\ outcome = "returned" /\ result = definitions
         /\ okRequests = PagesOf(Len(definitions), DefLimit)

\* A catalog with a short last page, fetched without a failure.
C4_Witness ==
    /\ Completed /\ ~failed /\ catalogTotal = Len(catalog)
    /\ Len(catalog) = PageLimit + 1 /\ result = catalog /\ okRequests = 2

\* C5 -- On retry exhaustion with at least one entry accumulated,
\* _save_cache is called once, with exactly the partial set, and the file
\* holds exactly that set unless the write itself failed; with nothing
\* accumulated _save_cache is not called and the file is left as it was.
C5_CacheOnExhaustion ==
    [][ (pc = "pa_request" /\ Exhausted') =>
          IF resources # <<>>
          THEN /\ Len(saves') = 1 /\ saves'[1].entries = resources
               /\ saves'[1].write = "ok" =>
                    /\ WellFormed(cacheFile') /\ cacheFile'.resources = resources
                    /\ cacheFile'.ts = now
          ELSE saves' = <<>> /\ cacheFile' = cacheFile ]_vars

\* The partial set of an exhausted fetch is in the cache file.
C5_Witness ==
    /\ Exhausted /\ result # <<>> /\ Len(saves) = 1 /\ saves[1].write = "ok"
    /\ WellFormed(cacheFile) /\ cacheFile.resources = result

\* C6 (as claimed) -- Retry exhaustion on the first page, with nothing
\* accumulated, reaches the caller as a failure, not as an empty catalog.
C6_HardFailure ==
    (Exhausted /\ offset = 0) => outcome = "raised"

\* C6 (amended) -- Retry exhaustion on the first page makes _paginate_all
\* return the empty list, without raising and without a cache write: the
\* caller gets the value it gets for an empty catalog.
C6_EmptyList ==
    /\ (Exhausted /\ offset = 0) =>
          outcome = "returned" /\ result = <<>> /\ saves = <<>>
    /\ (pc = "pa_done" /\ stopReason = "empty_page" /\ catalog = <<>>) =>
          outcome = "returned" /\ result = <<>>

\* The first page of a non-empty catalog failed three times.
C6_Witness ==
    Exhausted /\ offset = 0 /\ pageRequests = 3 /\ catalog # <<>> /\ result = <<>>

\* C7 -- Cache round trip: while the file is as the last successful
\* _save_cache(E) left it and less than 3600 s have passed since, _load_cache
\* returns E, in the same order; a fetch answered from the cache returns E.
C7_RoundTrip ==
    (lastSave.called /\ lastSave.write = "ok" /\ now - lastSave.ts < 3600) =>
        /\ LoadCache(cacheFile, now) = Cached(lastSave.entries)
        /\ (pc = "pa_done" /\ stopReason = "cache") => result = lastSave.entries

\* A later run is answered from the snapshot an earlier run saved.
C7_Witness ==
    /\ lastSave.called /\ lastSave.write = "ok" /\ Len(lastSave.entries) > 1
    /\ now > lastSave.ts /\ now - lastSave.ts < 3600
    /\ pc = "pa_done" /\ stopReason = "cache" /\ result = lastSave.entries

\* C8 -- Cache freshness: the load at the start of _paginate_all, given a
\* well-formed snapshot, returns its entries exactly when
\* now - fetched_at < 3600 and absent from 3600 s on; the load never changes
\* the file.
C8_Freshness ==
    [][ StartsPaginateAll =>
          /\ cacheFile' = cacheFile
          /\ WellFormed(cacheFile) =>
               /\ (now - cacheFile.ts < 3600) =>
                     /\ pc' = "pa_done" /\ stopReason' = "cache"
                     /\ outcome' = "returned" /\ result' = cacheFile.resources
               /\ (now - cacheFile.ts >= 3600) =>
                     /\ pc' = "pa_request"
                     /\ LoadCache(cacheFile, now) = Absent ]_vars

\* A snapshot exactly 3600 s old was found absent and is still in place.
C8_Witness ==
    /\ pc = "pa_request" /\ okRequests = 0 /\ pageRequests = 0
    /\ WellFormed(cacheFile) /\ now - cacheFile.ts = 3600

\* C9 (as claimed) -- Whatever the cache file holds, unless it is a fresh
\* well-formed snapshot the load returns absent without raising and
\* _paginate_all goes on to fetch from the remote.
C9_AnyContentIsAbsent ==
    [][ (StartsPaginateAll /\ ~(WellFormed(cacheFile) /\ now - cacheFile.ts < 3600))
            => (pc' = "pa_request" /\ outcome' = "none") ]_vars

\* C10 -- A failing cache write is silent: the fetch that called _save_cache
\* returns normally, and returns the entries it passed to _save_cache, which
\* are the entries it accumulated, whatever became of the write.
C10_SilentWriteFailure ==
    (pc = "pa_done" /\ saves # <<>>) =>
        /\ outcome = "returned"
        /\ result = saves[1].entries /\ result = resources

\* The write failed after the file was truncated; the fetch returned its entries.
C10_Witness ==
    /\ pc = "pa_done" /\ Len(saves) = 1 /\ saves[1].write = "write_fails"
    /\ outcome = "returned" /\ result = catalog /\ result # <<>>
    /\ cacheFile.kind = "invalid_json"

\* C11 -- _clear_cache returns False, without raising, when no cache file
\* exists, and True when one existed and was removed; once it has returned
\* the file is gone, _load_cache finds nothing, and only a cache write
\* brings a file back.
C11_ClearCache ==
    [][ /\ (pc = "idle" /\ pc' = "cc_done") =>
            /\ cacheFile.kind = "missing" =>
                 outcome' = "returned" /\ result' = <<FALSE>>
            /\ outcome' = "returned" =>
                 /\ result' = <<cacheFile.kind # "missing">>
                 /\ cacheFile' = NoFile
                 /\ \A d \in {0, 1, _CACHE_TTL} : LoadCache(cacheFile', now + d) = Absent
            /\ outcome' = "raised" => cacheFile.kind # "missing"
        /\ (cacheFile.kind = "missing" /\ cacheFile'.kind # "missing") =>
            (Len(saves') = Len(saves) + 1) ]_vars

\* A fresh snapshot was cleared; _clear_cache returned True and the next
\* load would find nothing.
C11_Witness ==
    /\ pc = "cc_done" /\ outcome = "returned" /\ result = <<TRUE>>
    /\ cacheFile = NoFile /\ LoadCache(cacheFile, now) = Absent
(* ---- search tiers (specification SpecSearch) ---- *)
SearchReturned == pc = "sa_done" /\ outcome = "returned"

\* What the full-scan tier computes on the whole catalog for the query and
\* vendor filter of the search.
FullScanResult == ClientSideFilter(catalog, query, vendor_filter)

\* a is b with some entries left out, the order kept.
IsSubsequence(a, b) ==
    \E f \in [1..Len(a) -> 1..Len(b)] :
        /\ \A i \in 1..Len(a) : a[i] = b[f[i]]
        /\ \A i, j \in 1..Len(a) : i < j => f[i] < f[j]

\* C12 as stated: a result that search_actions returns from the direct tier or
\* from the narrowed tier equals the result of the full scan on the same
\* catalog, query and vendor filter.
C12_TiersEqualFullScan ==
    (SearchReturned /\ tier \in {"direct", "narrowed"}) => result = FullScanResult

\* C12, amended: a result returned from the direct or the narrowed tier is the
\* full-scan result with some entries possibly left out, the order kept; the
\* two are equal when the remote filter compares names and vendors ignoring
\* case, as the client-side filter does.
C12_TiersWithinFullScan ==
    (SearchReturned /\ tier \in {"direct", "narrowed"}) =>
        /\ IsSubsequence(result, FullScanResult)
        /\ remoteFolds => result = FullScanResult

C12_Witness ==
    /\ SearchReturned /\ tier = "narrowed" /\ remoteFolds
    /\ vendor_filter = T_V /\ Len(result) = 2
    /\ result = FullScanResult /\ Len(catalog) = 2

\* C13 as stated: the narrowed tier returns only a non-empty filtered result,
\* and search_actions returns an empty result only after the full scan ran.
C13_EmptyOnlyAfterFullScan ==
    SearchReturned =>
        /\ tier = "narrowed" => result # <<>>
        /\ result = <<>> => (tier = "scan" /\ Len(scans) = 1)

\* What the remote answers to the direct query of the search.
DirectAnswer == FqlSearch(query, vendor_filter, "ok")[1]

\* C14: the direct remote filter (the full query ANDed with the vendor filter)
\* is the first query issued; when it yields at least one entry that answer is
\* the result, and no narrowed query, catalog fetch or cache read happens; when
\* it fails the search moves on to the next tier as for zero results and does
\* not raise.
C14_DirectTierFirst ==
    pc \in {"sa_words", "sa_scan", "sa_done"} =>
        /\ Len(fqlLog) >= 1
        /\ fqlLog[1].name = query /\ fqlLog[1].vendor = vendor_filter
        /\ (fqlLog[1].ok /\ DirectAnswer # <<>>) =>
              /\ pc = "sa_done" /\ outcome = "returned" /\ tier = "direct"
              /\ result = DirectAnswer
              /\ Len(fqlLog) = 1 /\ scans = <<>>
        /\ tier = "direct" => (fqlLog[1].ok /\ result # <<>>)
        /\ (~ fqlLog[1].ok \/ DirectAnswer = <<>>) =>
              /\ tier # "direct"
              /\ pc = "sa_done" => tier \in {"narrowed", "scan"}
              /\ outcome = "raised" => (tier = "scan" /\ scans = <<<<"raised">>>>)

C14_Witness ==
    /\ SearchReturned /\ tier = "direct" /\ vendor_filter = T_v
    /\ Len(result) = 2 /\ Len(fqlLog) = 1 /\ scans = <<>>

\* w is the longest whitespace-separated token of q, the first of the longest
\* when several have that length.
IsLongestToken(w, q) ==
    LET words == Split(q) IN
    \E i \in DOMAIN words :
        /\ words[i] = w
        /\ \A j \in DOMAIN words : Len(words[j]) <= Len(words[i])
        /\ \A j \in DOMAIN words : j < i => Len(words[j]) < Len(words[i])

\* C15: once the direct filter returned nothing (or failed), a query of more
\* than one token is sent to the remote as its longest token alone, with the
\* vendor filter, and a result of the narrowed tier is exactly the candidates
\* whose name contains the whole original query ignoring case, in order; a
\* single-token query never issues a narrowed query.
C15_Narrowing ==
    (pc \in {"sa_scan", "sa_done"} /\ tier # "direct") =>
        IF Len(Split(query)) > 1
        THEN /\ Len(fqlLog) = 2
             /\ IsLongestToken(fqlLog[2].name, query)
             /\ fqlLog[2].vendor = vendor_filter
             /\ tier = "narrowed" =>
                  /\ fqlLog[2].ok /\ scans = <<>>
                  /\ LET candidates == FqlSearch(fqlLog[2].name, vendor_filter, "ok")[1] IN
                     /\ candidates # <<>>
                     /\ IsSubsequence(result, candidates)
                     /\ \A i \in DOMAIN candidates :
                          (candidates[i] \in Range(result))
                             <=> Contains(Lower(candidates[i].name), Lower(query))
        ELSE Len(fqlLog) = 1 /\ tier # "narrowed"

C15_Witness ==
    /\ SearchReturned /\ tier = "narrowed" /\ query = T_ab
    /\ fqlLog[2].name = T_a /\ Len(result) = 1
    /\ Len(FqlSearch(T_a, vendor_filter, "ok")[1]) = 2

\* C16 as stated: search_by_vendor returns the remote vendor filter's answer
\* when it has at least one entry, and otherwise (remote error or zero
\* results) the full client-side scan filtered by vendor equality ignoring
\* case.
C16_VendorFallback ==
    (pc = "sv_done" /\ outcome = "returned") =>
        LET remote == FqlSearch(<<>>, vendor_filter, "ok")[1] IN
        IF fqlLog[1].ok /\ remote # <<>>
        THEN result = remote /\ scans = <<>>
        ELSE /\ Len(scans) = 1
             /\ result = SelectSeq(scans[1][2],
                                   LAMBDA r : Lower(r.vendor) = Lower(vendor_filter))

\* C17: search_by_use_case issues no remote filter query and reads the full
\* catalog once; it returns, in catalog order and once each, the entries with
\* at least one use case containing the term ignoring case.
C17_UseCaseScan ==
    pc = "uc_done" =>
        /\ fqlLog = <<>> /\ Len(scans) = 1
        /\ outcome = "returned" =>
             result = SelectSeq(scans[1][2], LAMBDA r :
                         \E k \in DOMAIN r.use_cases :
                             Contains(Lower(r.use_cases[k]), Lower(query)))

C17_Witness ==
    /\ pc = "uc_done" /\ outcome = "returned" /\ query = T_A
    /\ Len(result) = 2 /\ result = catalog
    /\ result[1].use_cases = <<T_A, T_ab>> /\ result[2].use_cases = <<T_a>>

RECURSIVE SumCounts(_, _)
SumCounts(groups, vs) ==
    IF vs = {} THEN 0
    ELSE LET v == CHOOSE w \in vs : TRUE
         IN groups[v].count + SumCounts(groups, vs \ {v})

\* C18: list_vendors has one group per distinct vendor of the catalog it read;
\* a group's count is the number of entries of that vendor (the counts sum to
\* the catalog's size), its use_cases the union of their use cases, and its
\* has_permission is false exactly when some entry of the vendor lacks
\* permission.
C18_VendorGroups ==
    (pc = "lv_done" /\ outcome = "returned") =>
        LET all == scans[1][2]
            of(v) == { i \in DOMAIN all : all[i].vendor = v }
        IN /\ DOMAIN result = { all[i].vendor : i \in DOMAIN all }
           /\ \A v \in DOMAIN result :
                /\ result[v].count = Cardinality(of(v))
                /\ result[v].use_cases = UNION { Range(all[i].use_cases) : i \in of(v) }
                /\ result[v].has_permission = (\A i \in of(v) : all[i].has_permission)
           /\ SumCounts(result, DOMAIN result) = Len(all)

C18_Witness ==
    /\ pc = "lv_done" /\ outcome = "returned" /\ scans[1][2] = catalog
    /\ DOMAIN result = {T_v} /\ result[T_v].count = 2
    /\ ~ catalog[1].has_permission /\ catalog[2].has_permission
    /\ ~ result[T_v].has_permission
    /\ result[T_v].use_cases = {T_a, T_A, T_ab}

(* ---- import batch (specification SpecImport) ---- *)
ImportEnded == pc \in {"im_done", "im_aborted"}

\* C19 as stated: whatever the files and the remote do, a run works through
\* every item of the batch and ends with one report holding exactly one status
\* per input, in input order; no item's failure aborts the batch.
C19_OneStatusPerItem ==
    ImportEnded =>
        /\ pc = "im_done"
        /\ Len(im_results) = Len(files)
        /\ \A i \in DOMAIN im_results : im_results[i].file = i

\* The stages run for item i, in order.
ItemStages(i) == SelectSeq(stages, LAMBDA e : e.item = i)
StageNames(log) == [k \in DOMAIN log |-> log[k].stage]

NamesExisting(i) ==
    /\ files[i].kind = "ok" /\ files[i].name # <<>>
    /\ \E k \in DOMAIN definitions : Lower(definitions[k].name) = Lower(files[i].name)

\* The pre-fetch ran and returned the definitions.
Prefetched == stages # <<>> /\ stages[1] = Stage(0, "fetch", TRUE)

\* C21 as stated: with the duplicate check enabled and the catalog
\* pre-fetched, every item whose extracted name equals, ignoring case, the
\* name of an existing definition is reported DUPLICATE whatever the other
\* fields of that definition, every other item goes on to validation, and the
\* batch continues after a DUPLICATE.
C21_DuplicateDetection ==
    (~ skip_duplicate_check /\ Prefetched) =>
        /\ \A i \in DOMAIN im_results :
             (im_results[i].status = "DUPLICATE") <=> NamesExisting(i)
        /\ (pc \in {"im_validate", "im_import"}) => ~ NamesExisting(item)

\* C22: the definitions are fetched at most once per run, before the first
\* item, and never with --skip-duplicate-check; the name index built then is
\* the one every item of the batch is checked against.
C22_IndexBuiltOnce ==
    /\ \A p \in DOMAIN stages :
         stages[p].stage = "fetch" => (p = 1 /\ ~ skip_duplicate_check)
    /\ pc # "idle" =>
         existing_names = IF Prefetched THEN BuildIndex(definitions, 1, NoNames)
                          ELSE NoNames
    /\ (pc # "idle" /\ ~ skip_duplicate_check) => stages[1].stage = "fetch"

C22_Witness ==
    /\ pc = "im_done" /\ Len(files) = 2 /\ Prefetched
    /\ StageNames(stages) = <<"fetch", "duplicate_check", "duplicate_check">>
    /\ im_results[1].status = "DUPLICATE" /\ im_results[2].status = "DUPLICATE"

\* The file has a structural error: a required top-level key is missing or a
\* PLACEHOLDER_ marker is left.
StructuralError(f) ==
    f.kind = "ok" /\ (~ f.name_key \/ ~ f.trigger \/ f.placeholder)

\* The file's only defect is the missing header comment.
WarningOnly(f) ==
    f.kind = "ok" /\ ~ f.header /\ f.name_key /\ f.trigger /\ ~ f.placeholder

\* C23: with validation enabled, an item that reaches validation with a
\* structural error is reported VALIDATION FAILED and no remote request is made
\* for it; an item with only the header warning is submitted to the dry-run.
C23_LocalFailFast ==
    ~ skip_validate =>
        \A i \in DOMAIN im_results :
            im_results[i].status # "DUPLICATE" =>
                LET names == Range(StageNames(ItemStages(i))) IN
                /\ StructuralError(files[i]) =>
                      /\ im_results[i].status = "VALIDATION FAILED"
                      /\ "dry_run" \notin names /\ "import" \notin names
                /\ WarningOnly(files[i]) => "dry_run" \in names

C23_Witness ==
    /\ pc = "im_done" /\ ~ skip_validate /\ Len(files) = 2
    /\ files[1].placeholder /\ WarningOnly(files[2])
    /\ im_results[1].status = "VALIDATION FAILED" /\ ItemStages(1) = <<>>
    /\ StageNames(ItemStages(2)) = <<"dry_run", "import">>
    /\ im_results[2].status = "IMPORTED"

\* C24 as stated: the exit status of an import run is non-zero exactly when an
\* item of the report is DUPLICATE, VALIDATION FAILED or IMPORT FAILED, and zero
\* when every item is IMPORTED.
C24_ExitStatus ==
    ImportEnded =>
        LET bad == { i \in DOMAIN im_results : im_results[i].status # "IMPORTED" } IN
        exit_code = IF bad # {} THEN <<1>> ELSE <<0>>

\* C25 as stated: an item of the report carries an id if and only if its
\* status is IMPORTED.
C25_IdIffImported ==
    \A i \in DOMAIN im_results :
        (im_results[i].id # <<>>) <=> (im_results[i].status = "IMPORTED")

\* C26: with --skip-validate no item is validated, locally or by a dry-run
\* request (none is reported VALIDATION FAILED, none makes the run end in
\* preflight_check); with --skip-duplicate-check nothing is fetched, no name is
\* checked and no item is reported DUPLICATE; the stages left keep their order.
C26_SkipFlags ==
    /\ skip_validate =>
         /\ \A p \in DOMAIN stages : stages[p].stage # "dry_run"
         /\ \A i \in DOMAIN im_results : im_results[i].status # "VALIDATION FAILED"
         /\ \A i \in DOMAIN im_results :
              im_results[i].status # "DUPLICATE" =>
                 im_results[i].status \in {"IMPORTED", "IMPORT FAILED"}
         /\ pc = "im_aborted" => existing_names # NoNames
    /\ skip_duplicate_check =>
         /\ \A p \in DOMAIN stages : stages[p].stage \notin {"fetch", "duplicate_check"}
         /\ \A i \in DOMAIN im_results : im_results[i].status # "DUPLICATE"
         /\ existing_names = NoNames
    /\ \A i \in DOMAIN files :
         IsSubsequence(StageNames(ItemStages(i)),
                       SelectSeq(<<"duplicate_check", "dry_run", "import">>,
                                 LAMBDA n : /\ n = "dry_run" => ~ skip_validate
                                            /\ n = "duplicate_check" => ~ skip_duplicate_check))

C26_Witness ==
    /\ pc = "im_done" /\ skip_validate /\ skip_duplicate_check /\ Len(files) = 2
    /\ StructuralError(files[1]) /\ files[2].name = T_wf
    /\ definitions # <<>>
    /\ StageNames(stages) = <<"import", "import">>
    /\ im_results[1].status = "IMPORTED" /\ im_results[2].status = "IMPORTED"

CheckStarts == po_checks' = po_checks + 1

\* C28: the loop of poll_results ends only by a status check that brings a
\* terminal status, whose result is returned, or by the timeout, returning
\* none; a check that raises, finds no resource or finds a non-terminal status
\* does not end the loop: an interval sleep follows, and another check while
\* time remains.
C28_LoopEnds ==
    [][ /\ (pc = "po_loop" /\ pc' = "po_done") =>
            \/ /\ CheckStarts
               /\ po_last' \in {"completed", "failed", "error"}
               /\ outcome' = "returned" /\ result' = <<po_last'>>
            \/ /\ po_checks' = po_checks
               /\ now - po_start >= po_timeout
               /\ outcome' = "returned" /\ result' = <<>>
        /\ (CheckStarts /\ po_last' \in {"raises", "no_resource", "running"}) =>
            (pc' = "po_sleep" /\ outcome' = outcome)
        /\ pc = "po_sleep" =>
            (pc' = "po_loop" /\ now' = now + po_interval /\ po_checks' = po_checks)
        /\ (pc = "po_loop" /\ now - po_start < po_timeout) => CheckStarts ]_vars

C28_Witness ==
    /\ pc = "po_loop" /\ po_last = "raises" /\ po_checks = 2
    /\ now - po_start < po_timeout

\* ceil(a / b) for b > 0.
Ceil(a, b) == (a + b - 1) \div b

\* C29: when no status check is terminal and the checks take no time,
\* poll_results performs exactly ceil(timeout / interval) checks before it
\* returns none (2 for timeout = 10 and interval = 5), and none at all when
\* timeout <= 0.
C29_PollCount ==
    (pc = "po_done" /\ stopReason = "timeout" /\ po_spent = 0) =>
        /\ po_checks = IF po_timeout <= 0 THEN 0 ELSE Ceil(po_timeout, po_interval)
        /\ (po_timeout = 10 /\ po_interval = 5) => po_checks = 2
        /\ result = <<>>

C29_Witness ==
    /\ pc = "po_done" /\ stopReason = "timeout" /\ po_spent = 0
    /\ po_timeout = 10 /\ po_interval = 5 /\ po_checks = 2

\* C30 as stated: no status check is started once timeout seconds have
\* elapsed since the execution was submitted.
C30_DeadlineFromSubmission ==
    [][ CheckStarts => now - po_submitted < po_timeout ]_vars

\* C30, amended: the deadline is measured from the call of poll_results, which
\* main makes when the submission request has returned: no status check is
\* started once timeout seconds have elapsed since then, which is up to the
\* duration of the submission request later than timeout seconds after the
\* submission.
C30_DeadlineFromPollStart ==
    [][ CheckStarts =>
          /\ now - po_start < po_timeout
          /\ po_start >= po_submitted
          /\ now - po_submitted < po_timeout + (po_start - po_submitted) ]_vars

C30_Witness ==
    /\ pc = "po_sleep" /\ po_spent = 0 /\ po_checks >= 2
    /\ now - po_submitted >= po_timeout
    /\ now - po_start < po_timeout


\* C31: a run that submitted the execution and then timed out while waiting
\* does not end with the exit status that a failed submission produces.
C31_TimeoutIsNotFailure ==
    (pc = "po_done" /\ stopReason = "timeout")
        => ExitStatus(stopReason) # ExitStatus("execution_failed")


\* C32: get_token answers from the cache, without a request, exactly while a
\* token is held and the clock is before issue time + expires_in - 60; a call
\* at or after that instant sends a request; no call sends more than one.
C32_LazyRefresh ==
    [][Len(tk_log') = Len(tk_log) + 1 =>
         LET held == tk_token # <<>> /\ tk_token # <<"">>
             limit == tk_issued + tk_expires_in - TokenMargin
             call == tk_log'[Len(tk_log')]
         IN  /\ tk_requests' \in {tk_requests, tk_requests + 1}
             /\ (tk_requests' = tk_requests) <=> (held /\ now < limit)
             /\ (tk_requests' = tk_requests) =>
                    /\ call.did = "cached" /\ call.token = tk_token
                    /\ UNCHANGED <<tk_token, tk_expires>>
             /\ call.at = now]_vars

\* A token was requested, a later call one second before the margin was
\* answered from the cache, and the call at the margin requested again.
C32_Witness ==
    /\ Len(tk_log) = 3
    /\ tk_log[1].did = "requested" /\ tk_log[2].did = "cached"
    /\ tk_log[3].did = "requested"
    /\ tk_log[3].at = tk_log[2].at + 1
    /\ tk_requests = 2


\* C33: after the k-th failed attempt of a page (k = 1, 2) the fetcher sleeps
\* 2 * k seconds and tries again; after the third it does not sleep and the
\* fetch ends; after an answered request it does not sleep, and the next
\* page starts again at attempt 1.
C33_BackoffSchedule ==
    [][pc = "pa_request" /\ pc' \in {"pa_request", "pa_done"} =>
         LET k == pageRequests + 1 IN
         IF okRequests' = okRequests
         THEN /\ k \in 1..max_retries
              /\ k < max_retries => /\ sleeps' = Append(sleeps, 2 * k)
                                    /\ pc' = "pa_request"
              /\ k = max_retries => sleeps' = sleeps /\ pc' = "pa_done"
              /\ sleeps' \in {<<2>>, <<2, 4>>}
         ELSE /\ sleeps' = <<>>
              /\ pc' = "pa_request" => attempt' = 1 /\ pageRequests' = 0]_vars

\* The second page of a fetch failed three times after sleeps of 2 and 4
\* seconds, the first page having been answered.
C33_Witness ==
    /\ Exhausted /\ sleeps = <<2, 4>> /\ resources # <<>> /\ okRequests >= 1


\* The status of item i in report r: PENDING until main has appended its
\* result.
StatusIn(r, i) == IF i <= Len(r) THEN r[i].status ELSE "PENDING"
TerminalStatuses == {"DUPLICATE", "VALIDATION FAILED", "IMPORT FAILED", "IMPORTED"}
RequestsFor(log, i, stage) ==
    Cardinality({k \in DOMAIN log : log[k].item = i /\ log[k].stage = stage})

SameName(i, j) ==
    /\ files[i].kind = "ok" /\ files[j].kind = "ok"
    /\ files[i].name # <<>> /\ files[j].name # <<>>
    /\ Lower(files[i].name) = Lower(files[j].name)

\* C35 as stated: with the duplicate check enabled and the index fetched, no
\* IMPORTED item has the name, ignoring case, of a definition the catalog
\* already held, nor of an earlier IMPORTED item of the same batch.
C35_NameUniqueness ==
    (~ skip_duplicate_check /\ Prefetched) =>
        \A i \in DOMAIN im_results :
            im_results[i].status = "IMPORTED" =>
                /\ ~ NamesExisting(i)
                /\ \A j \in 1..(i - 1) :
                      im_results[j].status = "IMPORTED" => ~ SameName(i, j)


\* A run was answered from the cache, and the snapshot it read is the one the
\* last _save_cache call of an earlier run wrote.
AnsweredFromSavedSnapshot ==
    /\ pc = "pa_done" /\ stopReason = "cache"
    /\ lastSave.called /\ lastSave.write = "ok"
    /\ cacheFile = Snapshot(lastSave.ts, lastSave.entries)

\* C36 as stated: every snapshot in the cache comes from a fetch that reached
\* the reported total, so a run answered from the cache never gets fewer
\* entries than the total the remote reported to the fetch that wrote it.
C36_OnlyFullSnapshots ==
    AnsweredFromSavedSnapshot =>
        /\ lastSave.reason = "total"
        /\ lastSave.total # <<>> /\ Len(result) >= lastSave.total[1]

\* C36, amended: a snapshot is written by a fetch that reached the reported
\* total, by one that met an empty page, or by one that stopped on retry
\* exhaustion with at least one entry, in which case it holds fewer entries
\* than the reported total; it is always a prefix of the catalog served, and
\* a run answered from the cache gets exactly the snapshot in the file.
C36_SnapshotOrigin ==
    /\ lastSave.called =>
         /\ lastSave.reason \in {"total", "empty_page", "exhausted"}
         /\ lastSave.reason = "total" =>
               (lastSave.total # <<>> /\ Len(lastSave.entries) >= lastSave.total[1])
         /\ lastSave.reason = "exhausted" =>
               /\ lastSave.entries # <<>>
               /\ lastSave.total # <<>> /\ Len(lastSave.entries) < lastSave.total[1]
    /\ (pc = "pa_done" /\ saves # <<>>) =>
         /\ IsPrefix(lastSave.entries, catalog)
         /\ lastSave.reason = "empty_page" => lastSave.entries = catalog
    /\ AnsweredFromSavedSnapshot => result = lastSave.entries

\* A run within the TTL is answered with the partial set an exhausted fetch
\* saved: fewer entries than the total the remote had reported.
C36_Witness ==
    /\ AnsweredFromSavedSnapshot
    /\ lastSave.reason = "exhausted"
    /\ result # <<>> /\ Len(result) < lastSave.total[1]


\* The pre-fetch of the existing definitions was made and failed.
FetchFailed == stages # <<>> /\ stages[1] = Stage(0, "fetch", FALSE)

C38_MissingFileNeverPasses ==
    \A i \in DOMAIN va_passed :
        files[i].kind = "missing" =>
            /\ ~ va_passed[i]
            /\ RequestsFor(stages, i, "dry_run") = 0


\* C39: a run that finds a fresh snapshot returns exactly its entries, sends
\* no request, calls _save_cache not at all and leaves the file, fetched_at
\* included, as it was, so that a hit happens only less than 3600 s after the
\* snapshot was written; no run calls _save_cache more than once, and none
\* sends a request after the call.
C39_CacheHitHasNoSideEffect ==
    [][/\ (pc = "idle" /\ pc' = "pa_done" /\ stopReason' = "cache") =>
            /\ outcome' = "returned" /\ result' = cacheFile.resources
            /\ cacheFile' = cacheFile /\ lastSave' = lastSave
            /\ saves' = <<>> /\ pageRequests' = 0 /\ okRequests' = 0
            /\ now - (IF cacheFile.tsKind = "number" THEN cacheFile.ts ELSE 0) < _CACHE_TTL
       /\ Len(saves') <= 1
       /\ (pc = "pa_request" /\ saves # <<>>) => FALSE]_vars

\* The second run after a fetch is answered from the snapshot the fetch
\* wrote, one second before it expires.
C39_Witness ==
    /\ pc = "pa_done" /\ stopReason = "cache" /\ runs >= 2
    /\ lastSave.called /\ lastSave.write = "ok"
    /\ cacheFile = Snapshot(lastSave.ts, lastSave.entries)
    /\ result = lastSave.entries
    /\ now - lastSave.ts = _CACHE_TTL - 1


\* C40: however the steps of a writer and of a loader interleave, the loader
\* does not raise, and what it returns is absent or the complete entry list
\* of one snapshot: the one the file held at first or the one being written.
C40_LoaderSeesWholeOrNothing ==
    l_pc = "done" =>
        /\ l_result.status # "raised"
        /\ l_result.status = "entries" =>
              \/ l_result.entries = rc_new
              \/ rc_old # <<>> /\ l_result.entries = rc_old

\* The loader read to the end of a file the writer had only begun: absent.
C40_Witness ==
    /\ l_pc = "done" /\ l_result = Absent /\ w_pc = "write"
    /\ l_buf # <<>> /\ l_buf = rc_file

====
